---- MODULE Spec2Model ----
(***************************************************************************)
(* A model of the job-orchestration engine of news_receiver:               *)
(*   trafficIngestor/news_receiver_traffic.py            (backlog driven)  *)
(*   trafficIngestor/news_receiver_traffic_ingestor_batch.py (batch mode)  *)
(* The backlog table, the dispatch throttle, the container pool and the    *)
(* worker loop are modelled from the code; the container runtime, the      *)
(* database server and the in-container script are environments whose      *)
(* outcomes are drawn nondeterministically.                                *)
(***************************************************************************)
EXTENDS Integers, Sequences, FiniteSets, TLC

(***************************************************************************)
(* Bounds of the model.                                                    *)
(***************************************************************************)
NRows == 3          \* rows of the backlog table, ids 1..NRows
NDbRows == 2        \* rows the callers of SpecDb race for, ids 1..NDbRows
MaxLimit == 2       \* largest LIMIT a fetch is called with in SpecFetch

NWorkers == 2       \* threads of the pool (one per container)
MaxRounds == 2      \* batch mode: calls of main() made by __main__'s loop
MaxRuns == 2        \* processes started one after the other (kill, restart)
RETRY == 1          \* retries of a failed job (5 in the source)
BATCH_SIZE == 1     \* LIMIT of the main loop's fetch (10000 in the source)
FullBatch == 3      \* SpecFull: a LIMIT that takes the whole backlog at once
MaxHold == 1        \* ticks a thread may spend inside the throttle's lock

Ids == 1..NRows
Workers == 1..NWorkers
DbIds == 1..NDbRows
Callers == {1, 2}   \* two concurrent callers of the backlog client (SpecDb)

(***************************************************************************)
(* Values of the backlog columns.  A path column is NULL, '' or a string.  *)
(***************************************************************************)
NULL == "<NULL>"
ErrorSentinel == "error"
Tags == {"a", "b"}   \* one tag per artifact set a caller may have produced
TagOf(c) == IF c = 1 THEN "a" ELSE "b"   \* each caller moved its own files

new_pcap(t) == IF t = "a" THEN "/netdisk/pcap/a" ELSE "/netdisk/pcap/b"
new_ssl(t) == IF t = "a" THEN "/netdisk/ssl_key/a" ELSE "/netdisk/ssl_key/b"
new_content(t) == IF t = "a" THEN "/netdisk/content/a" ELSE "/netdisk/content/b"
new_html(t) == IF t = "a" THEN "/netdisk/html/a" ELSE "/netdisk/html/b"

VARIABLES
    rows,        \* the backlog table: id -> row
    inflight,    \* SpecDb: caller -> the backlog call it has begun, or NoCall
    last,        \* SpecDb: caller -> its last completed markDone/markFailed
    fetched,     \* the list returned by the last fetch_jobs_from_db
    fetchCall,   \* the last fetch's limit and whether its query raised
    fetchSeq,    \* flips on every fetch (marks the fetch step); 0 between batches
    pc,          \* worker thread -> where it is in worker_loop / exec_once
    last_age,    \* now - _last_exec_ts in ticks, capped at EXEC_INTERVAL
    lockHolder,  \* the thread inside `with _last_exec_lock`, 0 when free
    tdelta,      \* thread -> its local `delta`
    treadAge,    \* thread -> ticks since it read `now` (inside the lock)
    tsleep,      \* thread -> ticks left of its time.sleep
    sinceStamp,  \* ticks since the latest recorded dispatch timestamp (capped)
    lastGap,     \* latest recorded timestamp minus the one before (capped)
    task,        \* thread -> row id of the task it dequeued (0: none)
    attempt,     \* thread -> `attempt` of worker_loop's for loop
    okv,         \* thread -> `ok` of worker_loop
    txn,         \* thread -> the UPDATE it executed and has not committed
    wname,       \* thread -> `container` of its worker_loop (0: no such thread)
    tcont,       \* thread -> task["container"] of the task it holds (0: none)
    passed,      \* thread -> its _wait_before_exec returned, docker exec follows
    cstate,      \* container -> "absent" | "stopped" | "running"
    marker,      \* container -> /tmp/.offload_disabled exists in it
    created,     \* prepare_pool_once's list `created`
    pidx,        \* prepare_pool_once: containers the current pass has handled
    createOks,   \* container -> successful `docker run`s in its lifetime
    ethtoolRuns, \* container -> times ethtool ran in it in its lifetime
    mpc,         \* where the main thread is
    exitCode,    \* exit status of the process, -1 while it runs
    run,         \* number of the process (1: first start; restarts follow)
    round,       \* batch mode: number of the current call of main()
    q,           \* the queue of the batch (row ids)
    unfinished,  \* the queue's count of tasks not yet task_done()
    stats,       \* [ok, fail, errors] of the batch (errors: the failed rows)
    tries,       \* row -> docker execs launched for its job in this batch
    failMarks,   \* row -> calls of mark_failed_record_to_db in this batch
    writeErr,    \* rows whose markDone/markFailed raised in this batch
    moveErr,     \* thread -> its last finished attempt failed in shutil.move
    relocated,   \* rows whose job's files were all moved to DASE_DST (this batch)
    mcapt,       \* SpecManifest: the files a capture left, by kind
    mfiles,      \* SpecManifest: the files as action.py leaves them
    mstage,      \* SpecManifest: "captured" | "written" | "judged"
    mverdict,    \* SpecManifest: what exec_once made of the manifest
    prepFailed,  \* a container could not be created or started (this process)
    ranFetch,    \* this process has called fetch_jobs_from_db
    dispatched,  \* this process has launched a job's docker exec
    inFlightAtKill, \* rows of the batch whose job was unfinished at the last kill
                    \* (kept until a worker of the next process takes a task)
    scratchDirty, \* a docker exec has written under HOST_CODE_PATH since the
                  \* last clear_host_code_subdirs
    ipc,         \* SpecTwo: instance -> where its program stands
    ijob,        \* SpecTwo: instance -> the row of its job, or 0
    ihost,       \* SpecTwo: instance -> the host it runs on
    hostPool,    \* SpecTwo: host -> state of the container of the first name
    hostFiles,   \* SpecTwo: host -> instances whose capture files and
                 \*   manifest lie under HOST_CODE_PATH
    wins,        \* SpecTwo: row -> instances whose completion write took effect
    cKind,       \* SpecCalls: thread -> the external call it is in, or "none"
    cAge,        \* SpecCalls: thread -> ticks its call has been waiting
    cmain,       \* SpecCsv: where main() of the CSV orchestrator stands
    cretry,      \* SpecCsv: the `retry` argument handed to worker_loop
    cq,          \* SpecCsv: the queue of jobs (row ids)
    cunfinished, \* SpecCsv: the queue's count of tasks not yet task_done()
    cpc,         \* SpecCsv: worker -> where it is in worker_loop
    ctask,       \* SpecCsv: worker -> row id of the task it dequeued (0: none)
    cres,        \* SpecCsv: worker -> how its exec_once ended
    ctries,      \* SpecCsv: row -> docker execs launched for its job
    cstats,      \* SpecCsv: [ok, fail, errors] of the run
    brows,       \* SpecJobs: the data rows of the CSV file, in file order
    bjobs,       \* SpecJobs: the job list read_jobs_batch returned
    bstage,      \* SpecJobs: "file" before read_jobs_batch, "read" after
    ecall,       \* SpecStale: number of the worker's latest docker exec on the container
    estage,      \* SpecStale: where the worker stands in exec_once
    eproc,       \* SpecStale: call -> state of its action.py process in the container
    lastJson,    \* SpecStale: the call that wrote meta/<container>_last.json (0: no file)
    eread        \* SpecStale: [call, by]: the call after which exec_once read the manifest and the call that had written it

dbVars == <<rows, inflight, last, fetched, fetchCall, fetchSeq>>
thrVars == <<last_age, lockHolder, tdelta, treadAge, tsleep, sinceStamp, lastGap>>
wkLocal == <<task, attempt, okv, txn>>
bindVars == <<wname, tcont>>
poolVars == <<cstate, marker, created, pidx, createOks, ethtoolRuns>>
mainVars == <<mpc, exitCode, run, round, q, unfinished, stats, tries, failMarks,
              prepFailed, ranFetch, dispatched, inFlightAtKill>>
mfVars == <<mcapt, mfiles, mstage, mverdict>>
\* variables of the specifications that look at one part of the program alone
twoVars == <<ipc, ijob, ihost, hostPool, hostFiles, wins>>
callVars == <<cKind, cAge>>
csvVars == <<cmain, cretry, cq, cunfinished, cpc, ctask, cres, ctries, cstats>>
jobVars == <<brows, bjobs, bstage>>
staleVars == <<ecall, estage, eproc, lastJson, eread>>
dedVars == <<twoVars, callVars, csvVars, jobVars, staleVars>>
sideVars == <<scratchDirty, dedVars>>
nonDbVars == <<pc, thrVars, wkLocal, bindVars, passed, poolVars, mainVars, writeErr,
               moveErr, relocated, mfVars, sideVars>>
vars == <<rows, inflight, last, fetched, fetchCall, fetchSeq, pc,
          last_age, lockHolder, tdelta, treadAge, tsleep, sinceStamp, lastGap,
          task, attempt, okv, txn, wname, tcont, passed,
          cstate, marker, created, pidx, createOks, ethtoolRuns,
          mpc, exitCode, run, round, q, unfinished, stats, tries, failMarks,
          prepFailed, ranFetch, dispatched, inFlightAtKill, writeErr,
          moveErr, relocated, mcapt, mfiles, mstage, mverdict,
          scratchDirty, ipc, ijob, ihost, hostPool, hostFiles, wins,
          cKind, cAge,
          cmain, cretry, cq, cunfinished, cpc, ctask, cres, ctries, cstats,
          brows, bjobs, bstage,
          ecall, estage, eproc, lastJson, eread>>

\* ------------------------------------------------------------------ backlog
FreshRow(u, p) ==
    [url |-> u, pcap_path |-> p, ssl_key_path |-> NULL, content_path |-> NULL,
     html_path |-> NULL, classify_status |-> NULL, traffic_status |-> NULL]

\* WHERE (pcap_path IS NULL OR pcap_path = '')
PcapEmpty(r) == r.pcap_path = NULL \/ r.pcap_path = ""

\* AND url IS NOT NULL AND url <> ''
UrlPresent(r) == r.url # NULL /\ r.url # ""

Selected(rs, id) == PcapEmpty(rs[id]) /\ UrlPresent(rs[id])

RECURSIVE OrderById(_)
OrderById(S) ==
    IF S = {} THEN <<>>
    ELSE LET m == CHOOSE x \in S : \A y \in S : x <= y
         IN <<m>> \o OrderById(S \ {m})

Take(s, n) == IF Len(s) <= n THEN s ELSE SubSeq(s, 1, n)

\* SELECT id, url ... ORDER BY id LIMIT limit
SelectJobsNoLimit(rs, limit) == OrderById({id \in Ids : Selected(rs, id)})
SelectJobs(rs, limit) == Take(OrderById({id \in Ids : Selected(rs, id)}), limit)

\* fetch_jobs_from_db: with err, the query raised after `got` rows had been
\* appended to jobs (0 when connect or execute raised); the except clause
\* logs and the rows read so far are returned.
fetch_jobs_from_db(rs, limit, err, got) ==
    IF err THEN Take(SelectJobs(rs, limit), got) ELSE SelectJobs(rs, limit)

\* the fetch is one SELECT: it writes no row
rows_claimed_by_fetch(rs, jobs) ==
    [id \in DOMAIN rs |->
        IF \E i \in 1..Len(jobs) : jobs[i] = id
        THEN [rs[id] EXCEPT !.traffic_status = "1"] ELSE rs[id]]
rows_after_fetch(rs, jobs) == rs

get_table_name(domain) ==
    CASE domain = "bbc.com" -> "bbc_content"
      [] domain = "nih.gov" -> "nih_content"
      [] domain = "forbeschina.com" -> "forbeschina_content"
      [] domain = "dailymail.co.uk" -> "dailymail_content"
      [] OTHER -> ""

TABLES_CONFIG == <<[table |-> "dailymail_content", domain |-> "dailymail.co.uk"]>>
Domain0 == TABLES_CONFIG[1].domain

\* values of the bookkeeping variables when nothing was called yet
NoCall == [op |-> "none", id |-> 0, pending |-> FALSE]
NoResult == [op |-> "none", id |-> 0, pending |-> FALSE, ret |-> FALSE, dberr |-> FALSE]
NoFetch == [limit |-> 0, err |-> FALSE]
NoTxn == [op |-> "none", id |-> 0, affected |-> 0]

\* rows matched by: WHERE id=%s AND (pcap_path IS NULL OR pcap_path = '')
UpdateGuardNoCheck(rs, id) == IF id \in DOMAIN rs THEN 1 ELSE 0
UpdateGuard(rs, id) == IF id \in DOMAIN rs /\ PcapEmpty(rs[id]) THEN 1 ELSE 0

\* The row after upload_single_record_to_db's UPDATE took effect.
DoneRow(r, t) ==
    [r EXCEPT !.classify_status = "0", !.traffic_status = "0",
              !.pcap_path = new_pcap(t), !.ssl_key_path = new_ssl(t),
              !.content_path = new_content(t), !.html_path = new_html(t)]

\* upload_single_record_to_db(engine, domain, row_id, paths of tag t):
\* dberr = an exception in execute/commit; the transaction is rolled back.
upload_affected(rs, domain, id, dberr) ==
    IF get_table_name(domain) = "" \/ dberr THEN 0 ELSE UpdateGuard(rs, id)

upload_rows(rs, domain, id, t, dberr) ==
    IF upload_affected(rs, domain, id, dberr) > 0
    THEN [rs EXCEPT ![id] = DoneRow(@, t)] ELSE rs

upload_single_record_to_db(rs, domain, id, dberr) ==
    upload_affected(rs, domain, id, dberr) > 0

\* mark_failed_record_to_db(engine, domain, row_id)
FailedGuardNoCheck(rs, id) == IF id \in DOMAIN rs THEN 1 ELSE 0
FailedGuard(rs, id) == IF id \in DOMAIN rs /\ PcapEmpty(rs[id]) THEN 1 ELSE 0

failed_affected(rs, domain, id, dberr) ==
    IF get_table_name(domain) = "" \/ dberr THEN 0 ELSE FailedGuard(rs, id)

failed_rows(rs, domain, id, dberr) ==
    IF failed_affected(rs, domain, id, dberr) > 0
    THEN [rs EXCEPT ![id].pcap_path = ErrorSentinel] ELSE rs

mark_failed_record_to_db(rs, domain, id, dberr) ==
    failed_affected(rs, domain, id, dberr) > 0

\* ------------------------------------------------------- dispatch throttle
\* Time is counted in ticks of half a second: EXEC_INTERVAL = 1.0 s is two
\* ticks and the 0.5 s cap of the polling sleep is one.  The clock is kept
\* relative: last_age = now - _last_exec_ts, so that the state stays finite.
EXEC_INTERVAL == 2
SleepCap == 1

Min(a, b) == IF a <= b THEN a ELSE b

\* no capture is being looked at (every specification but SpecManifest)
InitNoManifest ==
    /\ mcapt = <<>>
    /\ mfiles = <<>>
    /\ mstage = "none"
    /\ mverdict = "none"

\* the specifications of one part of the program: not in use
InitNoTwo ==
    /\ ipc = <<>>
    /\ ijob = <<>>
    /\ ihost = <<>>
    /\ hostPool = <<>>
    /\ hostFiles = <<>>
    /\ wins = <<>>

InitNoCalls ==
    /\ cKind = <<>>
    /\ cAge = <<>>

InitNoCsv ==
    /\ cmain = <<>>
    /\ cretry = <<>>
    /\ cq = <<>>
    /\ cunfinished = <<>>
    /\ cpc = <<>>
    /\ ctask = <<>>
    /\ cres = <<>>
    /\ ctries = <<>>
    /\ cstats = <<>>

InitNoJobs ==
    /\ brows = <<>>
    /\ bjobs = <<>>
    /\ bstage = <<>>

InitNoStale ==
    /\ ecall = <<>>
    /\ estage = <<>>
    /\ eproc = <<>>
    /\ lastJson = <<>>
    /\ eread = <<>>

InitNoDed == InitNoTwo /\ InitNoCalls /\ InitNoCsv /\ InitNoJobs /\ InitNoStale

\* HOST_CODE_PATH holds no sub-directory yet
InitSideVars ==
    /\ scratchDirty = FALSE
    /\ InitNoDed

InitWorkerVars ==
    /\ pc = [w \in Workers |-> "idle"]
    /\ task = [w \in Workers |-> 0]
    /\ attempt = [w \in Workers |-> 0]
    /\ okv = [w \in Workers |-> FALSE]
    /\ txn = [w \in Workers |-> NoTxn]
    /\ wname = [w \in Workers |-> 0]
    /\ tcont = [w \in Workers |-> 0]
    /\ passed = [w \in Workers |-> FALSE]
    /\ moveErr = [w \in Workers |-> FALSE]
    /\ relocated = {}
    /\ InitNoManifest

InitPoolVars ==
    /\ cstate = [n \in Workers |-> "absent"]
    /\ marker = [n \in Workers |-> FALSE]
    /\ created = {}
    /\ pidx = 0
    /\ createOks = [n \in Workers |-> 0]
    /\ ethtoolRuns = [n \in Workers |-> 0]

InitMainVars ==
    /\ mpc = "boot"
    /\ exitCode = -1
    /\ run = 1
    /\ round = 1
    /\ q = <<>>
    /\ unfinished = 0
    /\ stats = [ok |-> 0, fail |-> 0, errors |-> <<>>]
    /\ tries = [id \in Ids |-> 0]
    /\ failMarks = [id \in Ids |-> 0]
    /\ writeErr = {}
    /\ prepFailed = FALSE
    /\ ranFetch = FALSE
    /\ dispatched = FALSE
    /\ inFlightAtKill = {}

InitThrottleVars ==
    /\ last_age = EXEC_INTERVAL        \* _last_exec_ts = 0.0, long ago
    /\ lockHolder = 0
    /\ tdelta = [w \in Workers |-> 0]
    /\ treadAge = [w \in Workers |-> 0]
    /\ tsleep = [w \in Workers |-> 0]
    /\ sinceStamp = EXEC_INTERVAL + MaxHold
    /\ lastGap = EXEC_INTERVAL

\* `with _last_exec_lock`: the lock is taken only when it is free
lock_ignored(holder) == TRUE
lock_free(holder) == holder = 0

\* leaving the with-block releases the lock, whether or not delta <= 0
lock_kept_while_waiting(w, through) == IF through THEN 0 ELSE w
lock_on_exit(w, through) == 0

\* delta = _last_exec_ts + EXEC_INTERVAL - now
delta_of(age) == EXEC_INTERVAL - age

ThrLock(w) ==
    /\ pc[w] = "thr_lock"
    /\ lock_free(lockHolder)
    /\ lockHolder' = w
    /\ pc' = [pc EXCEPT ![w] = "thr_read"]
    /\ UNCHANGED <<dbVars, wkLocal, passed, poolVars, mainVars,
                   last_age, tdelta, treadAge, tsleep, sinceStamp, lastGap>>
    /\ UNCHANGED <<bindVars, writeErr, mfVars, sideVars, moveErr, relocated>>

\* now = time.monotonic(); delta = _last_exec_ts + EXEC_INTERVAL - now
ThrRead(w) ==
    /\ pc[w] = "thr_read"
    /\ tdelta' = [tdelta EXCEPT ![w] = delta_of(last_age)]
    /\ treadAge' = [treadAge EXCEPT ![w] = 0]
    /\ pc' = [pc EXCEPT ![w] = "thr_decide"]
    /\ UNCHANGED <<dbVars, wkLocal, passed, poolVars, mainVars,
                   last_age, lockHolder, tsleep, sinceStamp, lastGap>>
    /\ UNCHANGED <<bindVars, writeErr, mfVars, sideVars, moveErr, relocated>>

\* if delta <= 0: _last_exec_ts = now; return.  Otherwise leave the lock and
\* time.sleep(min(delta, 0.5)).
ThrDecide(w) ==
    /\ pc[w] = "thr_decide"
    /\ IF tdelta[w] <= 0
       THEN /\ last_age' = treadAge[w]
            /\ lastGap' = Min(EXEC_INTERVAL,
                              IF sinceStamp >= treadAge[w] THEN sinceStamp - treadAge[w] ELSE 0)
            /\ sinceStamp' = treadAge[w]
            /\ pc' = [pc EXCEPT ![w] = "exec"]
            /\ passed' = [passed EXCEPT ![w] = TRUE]
            /\ UNCHANGED tsleep
       ELSE /\ tsleep' = [tsleep EXCEPT ![w] = Min(tdelta[w], SleepCap)]
            /\ pc' = [pc EXCEPT ![w] = "thr_sleep"]
            /\ UNCHANGED <<last_age, lastGap, sinceStamp, passed>>
    /\ lockHolder' = lock_on_exit(w, tdelta[w] <= 0)
    /\ UNCHANGED <<dbVars, wkLocal, poolVars, mainVars, tdelta, treadAge>>
    /\ UNCHANGED <<bindVars, writeErr, mfVars, sideVars, moveErr, relocated>>

\* time.sleep returned: back to the top of the while loop
ThrWake(w) ==
    /\ pc[w] = "thr_sleep"
    /\ tsleep[w] = 0
    /\ pc' = [pc EXCEPT ![w] = "thr_lock"]
    /\ UNCHANGED <<dbVars, thrVars, wkLocal, passed, poolVars, mainVars>>
    /\ UNCHANGED <<bindVars, writeErr, mfVars, sideVars, moveErr, relocated>>

\* Half a second passes.  A thread stays at most MaxHold ticks between its
\* reading of the clock and the end of the with-block.
Tick ==
    /\ \A w \in Workers : pc[w] = "thr_decide" => treadAge[w] < MaxHold
    /\ last_age' = Min(last_age + 1, EXEC_INTERVAL)
    /\ sinceStamp' = Min(sinceStamp + 1, EXEC_INTERVAL + MaxHold)
    /\ treadAge' = [w \in Workers |->
                      IF pc[w] = "thr_decide" THEN treadAge[w] + 1 ELSE treadAge[w]]
    /\ tsleep' = [w \in Workers |-> IF tsleep[w] > 0 THEN tsleep[w] - 1 ELSE 0]
    /\ UNCHANGED <<dbVars, pc, lockHolder, tdelta, lastGap, wkLocal, passed, poolVars, mainVars>>
    /\ UNCHANGED <<bindVars, writeErr, mfVars, sideVars, moveErr, relocated>>

\* ------------------------------------------------------------ container pool
\* Containers are named by their index: container n is worker n's.
Names == Workers

\* build_container_names lists START_IDX..END_IDX; the passes walk it in order
NextName == pidx + 1

\* container_exists: None when `docker inspect` fails, which it does for a
\* missing container and may do for any other reason
container_exists(n, inspectOk) ==
    IF cstate[n] = "absent" \/ ~inspectOk THEN "None" ELSE "bool"

\* container_running: inspect succeeded and printed true
container_running_assumed(n, inspectOk) == TRUE
container_running(n, inspectOk) == inspectOk /\ cstate[n] = "running"

\* `docker run --name n`: the runtime refuses a name that is taken
DockerRunOk(n, runOk) == runOk /\ cstate[n] = "absent"

\* `docker start n`: needs the container; starting a running one succeeds
DockerStartOk(n, startOk) == startOk /\ cstate[n] # "absent"

\* create_container / start_container: log FATAL and sys.exit(2)
failure_ignored(nextpc) == nextpc
exit_on_failure(nextpc) == "exited"

\* Pass 3 runs disable_offload_once on the containers created by this call
offload_all_names(made, names) == names
offload_targets(made, names) == made

\* docker ps -aq -f name=^PREFIX | xargs -r docker rm -f   (check=False)
RemoveAll(rmOk) ==
    /\ cstate' = IF rmOk THEN [n \in Names |-> "absent"] ELSE cstate
    /\ marker' = IF rmOk THEN [n \in Names |-> FALSE] ELSE marker
    /\ createOks' = IF rmOk THEN [n \in Names |-> 0] ELSE createOks
    /\ ethtoolRuns' = IF rmOk THEN [n \in Names |-> 0] ELSE ethtoolRuns

\* __main__: remove the prefix's containers, clear the scratch dirs, call main()
Boot(rmOk) ==
    /\ scratchDirty' = FALSE
    /\ mpc = "boot"
    /\ RemoveAll(rmOk)
    /\ mpc' = "main"
    /\ UNCHANGED <<dbVars, pc, thrVars, wkLocal, passed, created, pidx,
                   exitCode, run, round, q, unfinished, stats, tries, failMarks,
                   prepFailed, ranFetch, dispatched, inFlightAtKill>>
    /\ UNCHANGED <<bindVars, writeErr, mfVars, dedVars, moveErr, relocated>>

\* ensure_docker_available: `docker version` fails -> sys.exit(2)
EnsureDocker(dockerOk) ==
    /\ mpc = "prep_docker"
    /\ IF dockerOk
       THEN /\ mpc' = "prep_create" /\ exitCode' = exitCode
       ELSE /\ mpc' = "exited" /\ exitCode' = 2
    /\ created' = {}
    /\ pidx' = 0
    /\ UNCHANGED <<dbVars, pc, thrVars, wkLocal, passed, cstate, marker, createOks,
                   ethtoolRuns, run, round, q, unfinished, stats, tries, failMarks,
                   prepFailed, ranFetch, dispatched, inFlightAtKill>>
    /\ UNCHANGED <<bindVars, writeErr, mfVars, sideVars, moveErr, relocated>>

\* Pass 1: for n in names: if container_exists(n) is None: create_container
PrepCreate(inspectOk, runOk) ==
    /\ mpc = "prep_create" /\ pidx < NWorkers
    /\ LET n == NextName IN
       IF container_exists(n, inspectOk) = "None"
       THEN IF DockerRunOk(n, runOk)
            THEN /\ cstate' = [cstate EXCEPT ![n] = "running"]
                 /\ marker' = [marker EXCEPT ![n] = FALSE]
                 /\ createOks' = [createOks EXCEPT ![n] = @ + 1]
                 /\ created' = created \cup {n}
                 /\ pidx' = pidx + 1
                 /\ UNCHANGED <<mpc, exitCode, prepFailed>>
            ELSE /\ mpc' = exit_on_failure("prep_create")
                 /\ exitCode' = IF mpc' = "exited" THEN 2 ELSE exitCode
                 /\ prepFailed' = TRUE
                 /\ pidx' = pidx + 1
                 /\ UNCHANGED <<cstate, marker, createOks, created>>
       ELSE /\ pidx' = pidx + 1
            /\ UNCHANGED <<mpc, exitCode, prepFailed, cstate, marker, createOks, created>>
    /\ UNCHANGED <<dbVars, pc, thrVars, wkLocal, passed, ethtoolRuns, run, round, q,
                   unfinished, stats, tries, failMarks, ranFetch, dispatched,
                   inFlightAtKill>>
    /\ UNCHANGED <<bindVars, writeErr, mfVars, sideVars, moveErr, relocated>>

\* Pass 2: for n in names: if not container_running(n): start_container(n)
PrepStart(inspectOk, startOk) ==
    /\ mpc = "prep_start" /\ pidx < NWorkers
    /\ LET n == NextName IN
       IF ~container_running(n, inspectOk)
       THEN IF DockerStartOk(n, startOk)
            THEN /\ cstate' = [cstate EXCEPT ![n] = "running"]
                 /\ UNCHANGED <<mpc, exitCode, prepFailed>>
            ELSE /\ mpc' = exit_on_failure("prep_start")
                 /\ exitCode' = IF mpc' = "exited" THEN 2 ELSE exitCode
                 /\ prepFailed' = TRUE
                 /\ UNCHANGED cstate
       ELSE UNCHANGED <<mpc, exitCode, prepFailed, cstate>>
    /\ pidx' = pidx + 1
    /\ UNCHANGED <<dbVars, pc, thrVars, wkLocal, passed, marker, created, createOks,
                   ethtoolRuns, run, round, q, unfinished, stats, tries, failMarks,
                   ranFetch, dispatched, inFlightAtKill>>
    /\ UNCHANGED <<bindVars, writeErr, mfVars, sideVars, moveErr, relocated>>

\* disable_offload_once(n): the shell leaves at once when the marker file is
\* there; otherwise ethtool runs and, when it succeeds, the marker is touched.
\* Nothing happens when the docker exec itself fails (container not running).
PrepOffload(ethtoolOk) ==
    /\ mpc = "prep_offload" /\ pidx < NWorkers
    /\ LET n == NextName
           runs == n \in offload_targets(created, Names) /\ cstate[n] = "running"
                   /\ ~marker[n]
       IN /\ ethtoolRuns' = IF runs THEN [ethtoolRuns EXCEPT ![n] = @ + 1] ELSE ethtoolRuns
          /\ marker' = IF runs /\ ethtoolOk THEN [marker EXCEPT ![n] = TRUE] ELSE marker
    /\ pidx' = pidx + 1
    /\ UNCHANGED <<dbVars, pc, thrVars, wkLocal, passed, cstate, created, createOks,
                   mpc, exitCode, run, round, q, unfinished, stats, tries, failMarks,
                   prepFailed, ranFetch, dispatched, inFlightAtKill>>
    /\ UNCHANGED <<bindVars, writeErr, mfVars, sideVars, moveErr, relocated>>

\* the end of a pass of prepare_pool_once; after the third it returns names
PrepPassEnd ==
    /\ mpc \in {"prep_create", "prep_start", "prep_offload"} /\ pidx = NWorkers
    /\ mpc' = CASE mpc = "prep_create" -> "prep_start"
                [] mpc = "prep_start" -> "prep_offload"
                [] OTHER -> "prepared"
    /\ pidx' = 0
    /\ created' = IF mpc = "prep_offload" THEN {} ELSE created
    /\ UNCHANGED <<dbVars, pc, thrVars, wkLocal, passed, cstate, marker,
                   createOks, ethtoolRuns, exitCode, run, round, q, unfinished, stats,
                   tries, failMarks, prepFailed, ranFetch, dispatched, inFlightAtKill>>
    /\ UNCHANGED <<bindVars, writeErr, mfVars, sideVars, moveErr, relocated>>

\* ------------------------------------------------ SpecPool: batch-mode rounds
\* news_receiver_traffic_ingestor_batch.py: __main__ removes the containers and
\* then calls main() 120 times; main() prepares the pool, runs the jobs of the
\* CSV and returns without removing the containers.
InitPool ==
    /\ rows = [id \in Ids |-> FreshRow("http://u", NULL)]
    /\ inflight = [c \in Callers |-> NoCall]
    /\ last = [c \in Callers |-> NoResult]
    /\ fetched = <<>>
    /\ fetchCall = NoFetch
    /\ fetchSeq = 0
    /\ InitThrottleVars
    /\ InitWorkerVars
    /\ InitSideVars
    /\ InitMainVars
    /\ created = {}
    /\ pidx = 0
    \* what an earlier process left behind
    /\ cstate \in [Names -> {"absent", "stopped", "running"}]
    /\ marker \in [Names -> BOOLEAN]
    /\ \A n \in Names : cstate[n] = "absent" => ~marker[n]
    /\ createOks = [n \in Names |-> IF cstate[n] = "absent" THEN 0 ELSE 1]
    /\ ethtoolRuns = [n \in Names |-> IF marker[n] THEN 1 ELSE 0]

\* main(): signal handlers, then prepare_pool_once()
BatchMainEnter ==
    /\ mpc = "main"
    /\ mpc' = "prep_docker"
    /\ UNCHANGED <<dbVars, pc, thrVars, wkLocal, passed, poolVars, exitCode, run, round,
                   q, unfinished, stats, tries, failMarks, prepFailed, ranFetch,
                   dispatched, inFlightAtKill>>
    /\ UNCHANGED <<bindVars, writeErr, mfVars, sideVars, moveErr, relocated>>

\* main() ran its jobs and returned (its docker rm is commented out); the
\* for loop of __main__ calls it again
BatchMainReturns ==
    /\ mpc = "prepared"
    /\ round < MaxRounds
    /\ round' = round + 1
    /\ mpc' = "main"
    /\ UNCHANGED <<dbVars, pc, thrVars, wkLocal, passed, poolVars, exitCode, run,
                   q, unfinished, stats, tries, failMarks, prepFailed, ranFetch,
                   dispatched, inFlightAtKill>>
    /\ UNCHANGED <<bindVars, writeErr, mfVars, sideVars, moveErr, relocated>>

NextPool ==
    \/ \E rmOk \in BOOLEAN : Boot(rmOk)
    \/ BatchMainEnter
    \/ \E dockerOk \in BOOLEAN : EnsureDocker(dockerOk)
    \/ \E inspectOk \in BOOLEAN, runOk \in BOOLEAN : PrepCreate(inspectOk, runOk)
    \/ \E inspectOk \in BOOLEAN, startOk \in BOOLEAN : PrepStart(inspectOk, startOk)
    \/ \E ethtoolOk \in BOOLEAN : PrepOffload(ethtoolOk)
    \/ PrepPassEnd
    \/ BatchMainReturns

SpecPool == InitPool /\ [][NextPool]_vars

\* C9: over successive calls of the preparation step no container is created
\* a second time and ethtool (the one-time configuration) runs at most once
\* in each container; a call that follows a completed one creates nothing and
\* configures nothing.
C9_PrepareIdempotent ==
    /\ \A n \in Names : createOks[n] <= 1 /\ ethtoolRuns[n] <= 1
    /\ round > 1 /\ mpc \in {"prep_create", "prep_start", "prep_offload", "prepared"}
         => created = {}

\* the second call of the preparation step has completed, after a first one
\* that created and configured a container
C9_Witness ==
    /\ round = 2 /\ mpc = "prepared"
    /\ createOks[1] = 1 /\ ethtoolRuns[1] = 1 /\ marker[1]
    /\ createOks[2] = 1 /\ ethtoolRuns[2] = 1 /\ ~marker[2]

\* ------------------------------------------------- SpecThrottle: the throttle
\* Every thread calls _wait_before_exec again and again (exec_once's first
\* statement), staying in its docker exec for any time in between.
InitThrottle ==
    /\ rows = [id \in Ids |-> FreshRow("http://u", NULL)]
    /\ inflight = [c \in Callers |-> NoCall]
    /\ last = [c \in Callers |-> NoResult]
    /\ fetched = <<>>
    /\ fetchCall = NoFetch
    /\ fetchSeq = 0
    /\ InitThrottleVars
    /\ InitWorkerVars
    /\ InitSideVars
    /\ InitPoolVars
    /\ InitMainVars

ThrEnter(w) ==
    /\ pc[w] \in {"idle", "exec"}
    /\ pc' = [pc EXCEPT ![w] = "thr_lock"]
    /\ passed' = [passed EXCEPT ![w] = FALSE]
    /\ UNCHANGED <<dbVars, thrVars, wkLocal, poolVars, mainVars>>
    /\ UNCHANGED <<bindVars, writeErr, mfVars, sideVars, moveErr, relocated>>

NextThrottle ==
    \/ Tick
    \/ \E w \in Workers : ThrEnter(w)
    \/ \E w \in Workers : ThrLock(w)
    \/ \E w \in Workers : ThrRead(w)
    \/ \E w \in Workers : ThrDecide(w)
    \/ \E w \in Workers : ThrWake(w)

SpecThrottle == InitThrottle /\ [][NextThrottle]_vars

\* Threads and the clock keep going; nothing obliges a thread to call again.
FairThrottle ==
    /\ SpecThrottle
    /\ WF_vars(Tick)
    /\ \A w \in Workers :
         WF_vars(ThrLock(w)) /\ WF_vars(ThrRead(w)) /\ WF_vars(ThrDecide(w))
         /\ WF_vars(ThrWake(w))

InAcquire(w) == pc[w] \in {"thr_lock", "thr_read", "thr_decide", "thr_sleep"}

\* C6: two successive recorded dispatch timestamps are at least EXEC_INTERVAL
\* apart, whatever the number of threads and their interleaving.
C6_MinSpacing == lastGap >= EXEC_INTERVAL

\* a thread has dispatched less than an interval ago while another one, which
\* found delta > 0, waits
C6_Witness ==
    /\ pc[1] = "exec" /\ sinceStamp < EXEC_INTERVAL
    /\ pc[2] = "thr_sleep" /\ tdelta[2] > 0

\* C7 as stated: every thread that calls acquire eventually returns from it,
\* also while the others keep calling.
C7_NoStarvation == \A w \in Workers : InAcquire(w) ~> (pc[w] = "exec")

\* C7 amended: a thread in acquire eventually returns from it provided the
\* other threads' calls of acquire cease (as they do when the queue of a batch
\* drains); while the others keep calling, it can be overtaken at every slot.
C7_ReturnsWhenOthersCease ==
    \A w \in Workers :
       (<>[](\A o \in Workers \ {w} : ~InAcquire(o))) => (InAcquire(w) ~> (pc[w] = "exec"))

\* a thread polls (delta > 0) right after the other one's acquire returned
C7_Witness ==
    /\ pc[1] = "thr_sleep" /\ tdelta[1] > 0 /\ pc[2] = "exec" /\ sinceStamp = 0

\* ------------------------------------------------- SpecDb: the backlog client
\* Two callers (workers of one run, or of two runs) call markDone / markFailed
\* for any row at any time; a call begins, then its UPDATE runs atomically
\* (or raises, and the transaction is rolled back).

InitDb ==
    /\ rows \in [Ids -> {FreshRow("http://u", p) : p \in {NULL, ""}}]
    /\ \A id \in Ids \ DbIds : rows[id].pcap_path = NULL
    /\ inflight = [c \in Callers |-> NoCall]
    /\ last = [c \in Callers |-> NoResult]
    /\ fetched = <<>>
    /\ fetchCall = NoFetch
    /\ fetchSeq = 0
    /\ InitThrottleVars
    /\ InitWorkerVars
    /\ InitSideVars
    /\ InitPoolVars
    /\ InitMainVars

DbBegin(c, op, id) ==
    /\ inflight[c].op = "none"
    /\ inflight' = [inflight EXCEPT ![c] =
          [op |-> op, id |-> id, pending |-> PcapEmpty(rows[id])]]
    /\ last' = [last EXCEPT ![c] = NoResult]
    /\ UNCHANGED <<rows, fetched, fetchCall, fetchSeq, nonDbVars>>

DbMarkDone(c, dberr) ==
    /\ inflight[c].op = "markDone"
    /\ LET k == inflight[c] IN
       /\ rows' = upload_rows(rows, Domain0, k.id, TagOf(c), dberr)
       /\ last' = [last EXCEPT ![c] =
             [op |-> "markDone", id |-> k.id, pending |-> k.pending,
              ret |-> upload_single_record_to_db(rows, Domain0, k.id, dberr),
              dberr |-> dberr]]
    /\ inflight' = [inflight EXCEPT ![c] = NoCall]
    /\ UNCHANGED <<fetched, fetchCall, fetchSeq, nonDbVars>>

DbMarkFailed(c, dberr) ==
    /\ inflight[c].op = "markFailed"
    /\ LET k == inflight[c] IN
       /\ rows' = failed_rows(rows, Domain0, k.id, dberr)
       /\ last' = [last EXCEPT ![c] =
             [op |-> "markFailed", id |-> k.id, pending |-> k.pending,
              ret |-> mark_failed_record_to_db(rows, Domain0, k.id, dberr),
              dberr |-> dberr]]
    /\ inflight' = [inflight EXCEPT ![c] = NoCall]
    /\ UNCHANGED <<fetched, fetchCall, fetchSeq, nonDbVars>>

NextDb ==
    \/ \E c \in Callers, op \in {"markDone", "markFailed"}, id \in DbIds : DbBegin(c, op, id)
    \/ \E c \in Callers, dberr \in BOOLEAN : DbMarkDone(c, dberr)
    \/ \E c \in Callers, dberr \in BOOLEAN : DbMarkFailed(c, dberr)

SpecDb == InitDb /\ [][NextDb]_vars

\* Two markDone calls for one row, each begun while the row was pending, both
\* returned: neither had taken effect when the other began.
Race == /\ last[1].op = "markDone" /\ last[2].op = "markDone"
        /\ last[1].id = last[2].id
        /\ last[1].pending /\ last[2].pending

HasPathsOf(r, c) ==
    /\ r.pcap_path = new_pcap(TagOf(c)) /\ r.ssl_key_path = new_ssl(TagOf(c))
    /\ r.content_path = new_content(TagOf(c)) /\ r.html_path = new_html(TagOf(c))

\* C2 as stated: of two concurrent markDone calls for one row exactly one
\* returns true, and the row's path fields are the winner's.
C2_ExactlyOneWins ==
    Race => \E w \in Callers :
              /\ last[w].ret /\ ~last[3 - w].ret
              /\ HasPathsOf(rows[last[w].id], w)

\* C2 amended: at most one of the two calls returns true, exactly one when no
\* call hit a database error; the row carries the winner's paths, and stays
\* pending when both calls failed.
C2_AtMostOneWins ==
    Race =>
      /\ ~(last[1].ret /\ last[2].ret)
      /\ (~last[1].dberr /\ ~last[2].dberr) => (last[1].ret \/ last[2].ret)
      /\ \A w \in Callers : last[w].ret => HasPathsOf(rows[last[w].id], w)
      /\ \A w \in Callers : last[w].ret => ~last[w].dberr
      /\ (~last[1].ret /\ ~last[2].ret) => PcapEmpty(rows[last[1].id])

C2_Witness ==
    /\ Race /\ ~last[1].dberr /\ ~last[2].dberr
    /\ last[2].ret /\ ~last[1].ret
    /\ HasPathsOf(rows[last[2].id], 2)

\* C3: a row whose pcap_path is non-empty (an artifact path or "error") is
\* never changed again by any markDone or markFailed.
C3_TerminalRowsFrozen ==
    [][\A id \in Ids : ~PcapEmpty(rows[id]) => rows'[id] = rows[id]]_vars

\* a markFailed without a database error bounced off a done row, and a
\* markDone bounced off an error row
C3_Witness ==
    /\ last[1].op = "markFailed" /\ ~last[1].dberr /\ ~last[1].ret
    /\ HasPathsOf(rows[last[1].id], 2)
    /\ last[2].op = "markDone" /\ ~last[2].dberr /\ ~last[2].ret
    /\ rows[last[2].id].pcap_path = ErrorSentinel

\* ------------------------------------------------- SpecFetch: fetch_jobs_from_db
\* The table holds rows with and without a url; a fetch reads it, and the rows
\* a fetch returned are completed (done or error) one by one.
InitFetch ==
    /\ rows \in [Ids -> {FreshRow(NULL, ""), FreshRow("", NULL),
                         FreshRow("http://u", NULL), FreshRow("http://u", "")}]
    /\ inflight = [c \in Callers |-> NoCall]
    /\ last = [c \in Callers |-> NoResult]
    /\ fetched = <<>>
    /\ fetchCall = NoFetch
    /\ fetchSeq = 0
    /\ InitThrottleVars
    /\ InitWorkerVars
    /\ InitSideVars
    /\ InitPoolVars
    /\ InitMainVars

InSeq(s, x) == \E i \in 1..Len(s) : s[i] = x

FetchStep(limit, err, got) ==
    /\ fetched' = fetch_jobs_from_db(rows, limit, err, got)
    /\ fetchCall' = [limit |-> limit, err |-> err]
    /\ fetchSeq' = 1 - fetchSeq
    /\ rows' = rows_after_fetch(rows, fetched')
    /\ UNCHANGED <<inflight, last, nonDbVars>>

FetchedDone(id, dberr) ==
    /\ InSeq(fetched, id)
    /\ rows' = upload_rows(rows, Domain0, id, "a", dberr)
    /\ UNCHANGED <<inflight, last, fetched, fetchCall, fetchSeq, nonDbVars>>

FetchedFailed(id, dberr) ==
    /\ InSeq(fetched, id)
    /\ rows' = failed_rows(rows, Domain0, id, dberr)
    /\ UNCHANGED <<inflight, last, fetched, fetchCall, fetchSeq, nonDbVars>>

NextFetch ==
    \/ \E limit \in 1..MaxLimit, err \in BOOLEAN, got \in 0..MaxLimit :
          FetchStep(limit, IF got = MaxLimit THEN FALSE ELSE err, got)
    \/ \E id \in Ids, dberr \in BOOLEAN : FetchedDone(id, dberr)
    \/ \E id \in Ids, dberr \in BOOLEAN : FetchedFailed(id, dberr)

SpecFetch == InitFetch /\ [][NextFetch]_vars

IsPrefix(s, t) == Len(s) <= Len(t) /\ \A i \in 1..Len(s) : s[i] = t[i]

\* C4 as stated: a fetch returns the rows whose completion field is empty, in
\* ascending id order, up to limit.
C4_AllPendingRows ==
    [][fetchSeq' # fetchSeq =>
         fetched' = Take(OrderById({id \in Ids : PcapEmpty(rows[id])}), fetchCall'.limit)]_vars

\* C4 amended: a fetch whose query does not raise returns, in ascending id
\* order, the first limit rows among those with an empty completion field and
\* a non-empty url; one whose query raises returns a prefix of that list; no
\* returned row is done or error.
C4_PendingRowsWithUrl ==
    [][fetchSeq' # fetchSeq =>
         LET want == {id \in Ids : PcapEmpty(rows[id]) /\ rows[id].url \notin {NULL, ""}}
             n == IF Cardinality(want) < fetchCall'.limit
                  THEN Cardinality(want) ELSE fetchCall'.limit
         IN /\ IsPrefix(fetched', OrderById(want))
            /\ ~fetchCall'.err => Len(fetched') = n
            /\ Len(fetched') <= n
            /\ \A i \in 1..Len(fetched') : PcapEmpty(rows[fetched'[i]])]_vars

\* a fetch cut by its limit, that skipped a pending row without url and a
\* terminal row
C4_Witness ==
    /\ ~fetchCall.err /\ fetchCall.limit = 1 /\ fetched = <<3>>
    /\ PcapEmpty(rows[1]) /\ ~UrlPresent(rows[1])
    /\ ~PcapEmpty(rows[2])


\* --------------------------------------- Spec: the backlog-driven orchestrator
\* news_receiver_traffic.py from __main__ to the end of the process, with the
\* signals that end it at once and the operator starting it again.
Init ==
    /\ rows = [id \in Ids |-> FreshRow("http://u", NULL)]
    /\ inflight = [c \in Callers |-> NoCall]
    /\ last = [c \in Callers |-> NoResult]
    /\ fetched = <<>>
    /\ fetchCall = NoFetch
    /\ fetchSeq = 0
    /\ InitThrottleVars
    /\ InitWorkerVars
    /\ InitSideVars
    /\ InitPoolVars
    /\ InitMainVars

\* main(): connect_db() runs SELECT 1; when it raises main() returns
ConnectDb(dbOk) ==
    /\ mpc = "main"
    /\ IF dbOk
       THEN /\ mpc' = "prep_docker" /\ exitCode' = exitCode
       ELSE /\ mpc' = "done" /\ exitCode' = 0
    /\ UNCHANGED <<dbVars, pc, thrVars, wkLocal, passed, poolVars, run, round, q,
                   unfinished, stats, tries, failMarks, prepFailed, ranFetch,
                   dispatched, inFlightAtKill>>
    /\ UNCHANGED <<bindVars, writeErr, mfVars, sideVars, moveErr, relocated>>

\* for n in names: pool.submit(worker_loop, n, q, stats, RETRY); thread w of
\* the executor runs the call that was given the w-th name
submit_first_name(w) == 1
submit_name(w) == w

\* if not all_jobs: break -- otherwise the batch is dispatched and joined
after_fetch_always_break(jobs) == "final"
after_fetch_never_break(jobs) == "join"
after_fetch(jobs) == IF jobs = <<>> THEN "final" ELSE "join"

\* The head of main()'s while loop (limit is BATCH_SIZE): fetch a batch; leave the loop when it is
\* empty, otherwise fill the queue and submit one worker_loop per container.
Fetch(limit, err, got) ==
    /\ mpc = "prepared"
    /\ err => got < Len(SelectJobs(rows, limit))
    /\ LET jobs == fetch_jobs_from_db(rows, limit, err, got) IN
       /\ fetched' = jobs
       /\ rows' = rows_after_fetch(rows, jobs)
       /\ mpc' = after_fetch(jobs)
       /\ IF jobs = <<>>
          THEN /\ UNCHANGED <<q, unfinished, stats, tries, failMarks, pc, wname>>
          ELSE /\ wname' = [w \in Workers |-> submit_name(w)]
               /\ q' = jobs
               /\ unfinished' = Len(jobs)
               /\ stats' = [ok |-> 0, fail |-> 0, errors |-> <<>>]
               /\ tries' = [id \in Ids |-> 0]
               /\ failMarks' = [id \in Ids |-> 0]
               /\ pc' = [w \in Workers |-> "get"]
    /\ UNCHANGED tcont
    /\ fetchCall' = [limit |-> limit, err |-> err]
    /\ fetchSeq' = 1 - fetchSeq
    /\ ranFetch' = TRUE
    /\ writeErr' = {}
    /\ relocated' = {}
    /\ UNCHANGED <<mfVars, sideVars, moveErr>>
    /\ UNCHANGED <<inflight, last, thrVars, wkLocal, passed, poolVars, exitCode, run,
                   round, prepFailed, dispatched, inFlightAtKill>>

\* q.get_nowait() removes the item it returns
queue_after_peek(qq) == qq
queue_after_get(qq) == Tail(qq)

\* worker_loop: task = q.get_nowait(); queue.Empty -> return
WkGet(w) ==
    /\ UNCHANGED <<writeErr, mfVars, sideVars, moveErr, relocated>>
    /\ pc[w] = "get"
    /\ IF q = <<>>
       THEN /\ pc' = [pc EXCEPT ![w] = "idle"]
            /\ wname' = [wname EXCEPT ![w] = 0]
            /\ UNCHANGED <<q, task, attempt, okv, tcont>>
       ELSE /\ task' = [task EXCEPT ![w] = Head(q)]
            /\ tcont' = [tcont EXCEPT ![w] = wname[w]]
            /\ UNCHANGED wname
            /\ q' = queue_after_get(q)
            /\ attempt' = [attempt EXCEPT ![w] = 0]
            /\ okv' = [okv EXCEPT ![w] = FALSE]
            /\ pc' = [pc EXCEPT ![w] = "attempt"]
    /\ inFlightAtKill' = {}
    /\ UNCHANGED <<dbVars, thrVars, txn, passed, poolVars, mpc, exitCode, run, round,
                   unfinished, stats, tries, failMarks, prepFailed, ranFetch,
                   dispatched>>

\* for attempt in range(retry + 1)
attempts_retry_only(retry) == retry
attempts_allowed(retry) == retry + 1

\* exec_once begins with _wait_before_exec()
exec_once_unthrottled(att) == IF att = 0 THEN "thr_lock" ELSE "exec"
exec_once_entry(att) == "thr_lock"

\* The head of the for loop: call exec_once(task), or leave the loop when the
\* range is exhausted.
WkAttempt(w) ==
    /\ pc[w] = "attempt"
    /\ IF attempt[w] < attempts_allowed(RETRY)
       THEN /\ tries' = [tries EXCEPT ![task[w]] = @ + 1]
            /\ pc' = [pc EXCEPT ![w] = exec_once_entry(attempt[w])]
       ELSE /\ pc' = [pc EXCEPT ![w] = "after_loop"]
            /\ UNCHANGED tries
    /\ UNCHANGED <<dbVars, thrVars, wkLocal, passed, poolVars, mpc, exitCode, run, round,
                   q, unfinished, stats, failMarks, prepFailed, ranFetch, dispatched,
                   inFlightAtKill>>
    /\ UNCHANGED <<bindVars, writeErr, mfVars, sideVars, relocated>>
    /\ moveErr' = IF attempt[w] < attempts_allowed(RETRY)
                  THEN [moveErr EXCEPT ![w] = FALSE] ELSE moveErr

\* what run(cmd, timeout) and the post-processing of exec_once can come to
ExecOutcomes == {"moved", "rc_nonzero", "timeout", "bad_manifest", "move_error",
                 "exception"}

\* worker_loop's `except Exception` keeps the thread alive: the attempt ends
\* like any failed one
exception_uncaught(outcome, nextpc) == IF outcome = "exception" THEN "dead" ELSE nextpc
exception_caught(outcome, nextpc) == nextpc

\* exec_once calls upload_single_record_to_db after the fifth shutil.move and
\* its chown, inside the try block: an error in a move skips the call
upload_despite_move_error(outcome) == outcome \in {"moved", "move_error"}
upload_after_moves(outcome) == outcome = "moved"

\* exec_once after the throttle: docker exec, then on rc = 0 the manifest is
\* read and the files are moved.  Every outcome but "moved" ends the attempt
\* with ok false: return False (rc # 0, missing paths, JSONDecodeError,
\* FileNotFoundError, OSError), TimeoutExpired, or another Exception caught
\* by worker_loop; a failed attempt below the last sleeps 5 s.
WkExec(w, outcome) ==
    /\ scratchDirty' = (scratchDirty \/ outcome # "exception")
    /\ pc[w] = "exec"
    /\ dispatched' = TRUE
    /\ passed' = [passed EXCEPT ![w] = FALSE]
    /\ moveErr' = [moveErr EXCEPT ![w] = (outcome = "move_error")]
    /\ relocated' = IF outcome = "moved" THEN relocated \cup {task[w]} ELSE relocated
    /\ IF upload_after_moves(outcome)
       THEN /\ pc' = [pc EXCEPT ![w] = "mark_done"]
            /\ UNCHANGED <<attempt, okv>>
       ELSE /\ okv' = [okv EXCEPT ![w] = FALSE]
            /\ IF attempt[w] < RETRY
               THEN /\ pc' = [pc EXCEPT ![w] = exception_caught(outcome, "backoff")]
                    /\ UNCHANGED attempt
               ELSE /\ pc' = [pc EXCEPT ![w] = exception_caught(outcome, "attempt")]
                    /\ attempt' = [attempt EXCEPT ![w] = @ + 1]
    /\ UNCHANGED <<dbVars, thrVars, task, txn, poolVars, mpc, exitCode, run, round, q,
                   unfinished, stats, tries, failMarks, prepFailed, ranFetch,
                   inFlightAtKill>>
    /\ UNCHANGED <<bindVars, writeErr, mfVars, dedVars>>

\* time.sleep(5) is over: the next iteration of the for loop
WkBackoff(w) ==
    /\ pc[w] = "backoff"
    /\ attempt' = [attempt EXCEPT ![w] = @ + 1]
    /\ pc' = [pc EXCEPT ![w] = "attempt"]
    /\ UNCHANGED <<dbVars, thrVars, task, okv, txn, passed, poolVars, mainVars>>
    /\ UNCHANGED <<bindVars, writeErr, mfVars, sideVars, moveErr, relocated>>


\* the files shutil.move put under DASE_DST for the job
JobTag == "a"

\* exec_once ends its try block with `return True, ""` whatever
\* upload_single_record_to_db returned (db_ok is only logged)
exec_once_result_db_ok(db_ok) == db_ok
exec_once_result(db_ok) == TRUE

\* with _stats_lock: stats["ok"] += 1
stats_ok_lost(st) == st
stats_ok(st) == [st EXCEPT !.ok = @ + 1]

\* worker_loop after exec_once returned ok: stats["ok"] += 1, break; after a
\* failed attempt: sleep 5 below the last attempt, then the next iteration
AfterExecOnce(w, ok) ==
    /\ okv' = [okv EXCEPT ![w] = ok]
    /\ IF ok
       THEN /\ stats' = stats_ok(stats)
            /\ pc' = [pc EXCEPT ![w] = "after_loop"]
            /\ UNCHANGED attempt
       ELSE /\ UNCHANGED stats
            /\ IF attempt[w] < RETRY
               THEN /\ pc' = [pc EXCEPT ![w] = "backoff"]
                    /\ UNCHANGED attempt
               ELSE /\ pc' = [pc EXCEPT ![w] = "attempt"]
                    /\ attempt' = [attempt EXCEPT ![w] = @ + 1]

\* upload_single_record_to_db, up to conn.execute(UPDATE ...): with dberr the
\* statement raises, the except clause rolls back and returns False.
WkMarkDoneExecute(w, dberr) ==
    /\ pc[w] = "mark_done"
    /\ IF dberr
       THEN /\ AfterExecOnce(w, exec_once_result(FALSE))
            /\ UNCHANGED txn
       ELSE /\ txn' = [txn EXCEPT ![w] =
                         [op |-> "markDone", id |-> task[w],
                          affected |-> upload_affected(rows, Domain0, task[w], FALSE)]]
            /\ pc' = [pc EXCEPT ![w] = "md_commit"]
            /\ UNCHANGED <<okv, stats, attempt>>
    /\ UNCHANGED <<dbVars, thrVars, task, passed, poolVars, mpc, exitCode, run,
                   round, q, unfinished, tries, failMarks, prepFailed, ranFetch,
                   dispatched, inFlightAtKill>>
    /\ UNCHANGED <<bindVars, mfVars, sideVars, moveErr, relocated>>
    /\ writeErr' = IF dberr THEN writeErr \cup {task[w]} ELSE writeErr

\* conn.commit() of upload_single_record_to_db (it returns rowcount > 0), and
\* the return of exec_once to worker_loop
WkMarkDoneCommit(w, dberr) ==
    /\ pc[w] = "md_commit"
    /\ rows' = upload_rows(rows, Domain0, txn[w].id, JobTag, dberr)
    /\ txn' = [txn EXCEPT ![w] = NoTxn]
    /\ AfterExecOnce(w, exec_once_result(
                           upload_single_record_to_db(rows, Domain0, txn[w].id, dberr)))
    /\ UNCHANGED <<inflight, last, fetched, fetchCall, fetchSeq, thrVars, task,
                   passed, poolVars, mpc, exitCode, run, round, q, unfinished, tries,
                   failMarks, prepFailed, ranFetch, dispatched, inFlightAtKill>>
    /\ UNCHANGED <<bindVars, mfVars, sideVars, moveErr, relocated>>
    /\ writeErr' = IF dberr THEN writeErr \cup {task[w]} ELSE writeErr

\* with _stats_lock: stats["fail"] += 1; stats["errors"].append((task, err))
stats_fail_missed(st, id) == st
stats_fail(st, id) == [st EXCEPT !.fail = @ + 1, !.errors = Append(@, id)]

\* After the for loop: if not ok, mark_failed_record_to_db is called (up to
\* its conn.execute) and the failure is counted.
WkAfterLoop(w, dberr) ==
    /\ pc[w] = "after_loop"
    /\ IF okv[w]
       THEN /\ pc' = [pc EXCEPT ![w] = "task_done"]
            /\ UNCHANGED <<failMarks, stats, txn>>
       ELSE /\ failMarks' = [failMarks EXCEPT ![task[w]] = @ + 1]
            /\ IF dberr
               THEN /\ stats' = stats_fail(stats, task[w])
                    /\ pc' = [pc EXCEPT ![w] = "task_done"]
                    /\ UNCHANGED txn
               ELSE /\ txn' = [txn EXCEPT ![w] =
                                 [op |-> "markFailed", id |-> task[w],
                                  affected |-> failed_affected(rows, Domain0, task[w], FALSE)]]
                    /\ pc' = [pc EXCEPT ![w] = "mf_commit"]
                    /\ UNCHANGED stats
    /\ UNCHANGED <<dbVars, thrVars, task, attempt, okv, passed, poolVars, mpc, exitCode,
                   run, round, q, unfinished, tries, prepFailed, ranFetch, dispatched,
                   inFlightAtKill>>
    /\ UNCHANGED <<bindVars, mfVars, sideVars, moveErr, relocated>>
    /\ writeErr' = IF ~okv[w] /\ dberr THEN writeErr \cup {task[w]} ELSE writeErr

\* conn.commit() of mark_failed_record_to_db; stats["fail"] += 1
WkMarkFailedCommit(w, dberr) ==
    /\ pc[w] = "mf_commit"
    /\ rows' = failed_rows(rows, Domain0, txn[w].id, dberr)
    /\ txn' = [txn EXCEPT ![w] = NoTxn]
    /\ stats' = stats_fail(stats, task[w])
    /\ pc' = [pc EXCEPT ![w] = "task_done"]
    /\ UNCHANGED <<inflight, last, fetched, fetchCall, fetchSeq, thrVars, task, attempt,
                   okv, passed, poolVars, mpc, exitCode, run, round, q, unfinished, tries,
                   failMarks, prepFailed, ranFetch, dispatched, inFlightAtKill>>
    /\ UNCHANGED <<bindVars, mfVars, sideVars, moveErr, relocated>>
    /\ writeErr' = IF dberr THEN writeErr \cup {task[w]} ELSE writeErr

\* q.task_done() is reached on every path through the loop body and takes
\* one off the queue's count of unfinished tasks
task_done_skipped(u) == u
task_done(u) == u - 1

\* q.task_done(), then the top of worker_loop's while loop
WkTaskDone(w) ==
    /\ UNCHANGED <<writeErr, mfVars, sideVars, relocated>>
    /\ moveErr' = [moveErr EXCEPT ![w] = FALSE]
    /\ pc[w] = "task_done"
    /\ unfinished' = task_done(unfinished)
    /\ task' = [task EXCEPT ![w] = 0]
    /\ tcont' = [tcont EXCEPT ![w] = 0]
    /\ UNCHANGED wname
    /\ pc' = [pc EXCEPT ![w] = "get"]
    /\ UNCHANGED <<dbVars, thrVars, attempt, okv, txn, passed, poolVars, mpc, exitCode,
                   run, round, q, stats, tries, failMarks, prepFailed, ranFetch,
                   dispatched, inFlightAtKill>>

\* q.join() waits for the queue's count of unfinished tasks to reach zero,
\* and leaving the executor's with-block waits for every worker to return
batch_over_unwaited(u, pcs) == TRUE
batch_over(u, pcs) == u = 0 /\ \A w \in Workers : pcs[w] = "idle"

\* q.join() returned and the executor's with-block waited for its threads;
\* the batch is summed up, the scratch dirs cleared, the loop starts over
Join ==
    /\ mpc = "join"
    /\ batch_over(unfinished, pc)
    /\ scratchDirty' = FALSE
    /\ mpc' = "prepared"
    /\ fetchSeq' = 0
    /\ UNCHANGED <<rows, inflight, last, fetched, fetchCall, pc, thrVars, wkLocal, passed,
                   poolVars, exitCode, run, round, q, unfinished, stats, tries,
                   failMarks, prepFailed, ranFetch, dispatched, inFlightAtKill>>
    /\ UNCHANGED <<bindVars, writeErr, mfVars, dedVars, moveErr, relocated>>

\* after the loop: final summary, sleep 60, docker rm -f of the pool
Final(rmOk) ==
    /\ mpc = "final"
    /\ RemoveAll(rmOk)
    /\ mpc' = "done"
    /\ exitCode' = 0
    /\ UNCHANGED <<dbVars, pc, thrVars, wkLocal, passed, created, pidx, run, round, q,
                   unfinished, stats, tries, failMarks, prepFailed, ranFetch,
                   dispatched, inFlightAtKill>>
    /\ UNCHANGED <<bindVars, writeErr, mfVars, sideVars, moveErr, relocated>>

\* an UPDATE executed and not committed is rolled back when its connection
\* goes away with the process
uncommitted_at_exit(rs, t) == rs

\* sig: os._exit(128 + signum).  Everything the process held is gone: threads,
\* queue, counters, open transactions.  Containers and rows stay.
Kill(signum) ==
    /\ mpc \notin {"exited", "done", "killed"}
    /\ mpc' = "killed"
    /\ exitCode' = 128 + signum
    /\ inFlightAtKill' = {task[w] : w \in {v \in Workers : task[v] # 0}}
                           \cup {q[i] : i \in 1..Len(q)}
    /\ rows' = uncommitted_at_exit(rows, txn)
    /\ fetched' = <<>>
    /\ fetchCall' = NoFetch
    /\ fetchSeq' = 0
    /\ pc' = [w \in Workers |-> "idle"]
    /\ task' = [w \in Workers |-> 0]
    /\ attempt' = [w \in Workers |-> 0]
    /\ okv' = [w \in Workers |-> FALSE]
    /\ txn' = [w \in Workers |-> NoTxn]
    /\ wname' = [w \in Workers |-> 0]
    /\ tcont' = [w \in Workers |-> 0]
    /\ passed' = [w \in Workers |-> FALSE]
    /\ last_age' = EXEC_INTERVAL
    /\ lockHolder' = 0
    /\ tdelta' = [w \in Workers |-> 0]
    /\ treadAge' = [w \in Workers |-> 0]
    /\ tsleep' = [w \in Workers |-> 0]
    /\ sinceStamp' = EXEC_INTERVAL + MaxHold
    /\ lastGap' = EXEC_INTERVAL
    /\ created' = {}
    /\ pidx' = 0
    /\ q' = <<>>
    /\ unfinished' = 0
    /\ stats' = [ok |-> 0, fail |-> 0, errors |-> <<>>]
    /\ tries' = [id \in Ids |-> 0]
    /\ failMarks' = [id \in Ids |-> 0]
    /\ prepFailed' = FALSE
    /\ writeErr' = {}
    /\ relocated' = {}
    /\ moveErr' = [w \in Workers |-> FALSE]
    /\ UNCHANGED <<mfVars, sideVars>>
    /\ ranFetch' = FALSE
    /\ dispatched' = FALSE
    /\ UNCHANGED <<inflight, last, cstate, marker, createOks, ethtoolRuns, run, round>>

\* The operator starts the program again; the host may have been rebooted in
\* between, which stops the containers.
Restart(rebooted) ==
    /\ mpc = "killed"
    /\ run < MaxRuns
    /\ run' = run + 1
    /\ mpc' = "boot"
    /\ exitCode' = -1
    /\ cstate' = [n \in Names |->
                    IF rebooted /\ cstate[n] = "running" THEN "stopped" ELSE cstate[n]]
    /\ UNCHANGED <<dbVars, pc, thrVars, wkLocal, passed, marker, created, pidx,
                   createOks, ethtoolRuns, round, q, unfinished, stats, tries,
                   failMarks, prepFailed, ranFetch, dispatched, inFlightAtKill>>
    /\ UNCHANGED <<bindVars, writeErr, mfVars, sideVars, moveErr, relocated>>

Next ==
    \/ \E rmOk \in BOOLEAN : Boot(rmOk)
    \/ \E dbOk \in BOOLEAN : ConnectDb(dbOk)
    \/ \E dockerOk \in BOOLEAN : EnsureDocker(dockerOk)
    \/ \E inspectOk \in BOOLEAN, runOk \in BOOLEAN : PrepCreate(inspectOk, runOk)
    \/ \E inspectOk \in BOOLEAN, startOk \in BOOLEAN : PrepStart(inspectOk, startOk)
    \/ \E ethtoolOk \in BOOLEAN : PrepOffload(ethtoolOk)
    \/ PrepPassEnd
    \/ \E err \in BOOLEAN, got \in 0..(BATCH_SIZE - 1) : Fetch(BATCH_SIZE, err, got)
    \/ \E w \in Workers : WkGet(w)
    \/ \E w \in Workers : WkAttempt(w)
    \/ \E w \in Workers : ThrLock(w)
    \/ \E w \in Workers : ThrRead(w)
    \/ \E w \in Workers : ThrDecide(w)
    \/ \E w \in Workers : ThrWake(w)
    \/ Tick
    \/ \E w \in Workers, outcome \in ExecOutcomes : WkExec(w, outcome)
    \/ \E w \in Workers : WkBackoff(w)
    \/ \E w \in Workers, dberr \in BOOLEAN : WkMarkDoneExecute(w, dberr)
    \/ \E w \in Workers, dberr \in BOOLEAN : WkMarkDoneCommit(w, dberr)
    \/ \E w \in Workers, dberr \in BOOLEAN : WkAfterLoop(w, dberr)
    \/ \E w \in Workers, dberr \in BOOLEAN : WkMarkFailedCommit(w, dberr)
    \/ \E w \in Workers : WkTaskDone(w)
    \/ Join
    \/ \E rmOk \in BOOLEAN : Final(rmOk)
    \/ \E signum \in {2, 15} : Kill(signum)
    \/ \E rebooted \in BOOLEAN : Restart(rebooted)

Spec == Init /\ [][Next]_vars


\* C1: a job whose every attempt failed has been attempted exactly RETRY + 1
\* times when the worker is done with it, and mark_failed_record_to_db was
\* called exactly once for its row, after the last attempt; no job is ever
\* attempted more than RETRY + 1 times or marked failed twice.
C1_RetryBound ==
    /\ \A id \in Ids :
          /\ tries[id] <= RETRY + 1
          /\ failMarks[id] <= 1
          /\ failMarks[id] = 1 => tries[id] = RETRY + 1
    /\ \A w \in Workers :
          pc[w] = "task_done" /\ ~okv[w]
             => tries[task[w]] = RETRY + 1 /\ failMarks[task[w]] = 1

\* worker 1 gave up on row 1 after RETRY + 1 failed attempts and marked it
C1_Witness ==
    /\ pc[1] = "task_done" /\ ~okv[1] /\ task[1] = 1
    /\ tries[1] = RETRY + 1 /\ failMarks[1] = 1
    /\ rows[1].pcap_path = ErrorSentinel

\* fetch step of the main loop
IsFetchStep == mpc = "prepared" /\ mpc' \in {"join", "final"}

\* a row is untouched, wholly done, or marked failed
RowShape(r) ==
    \/ r = FreshRow(r.url, NULL)
    \/ r = DoneRow(FreshRow(r.url, NULL), JobTag)
    \/ r = [FreshRow(r.url, NULL) EXCEPT !.pcap_path = ErrorSentinel]

C8_ExecAfterThrottle ==
    \A w \in Workers : pc[w] = "exec" <=> passed[w]

\* worker 1 passed the throttle for a retry and is at its docker exec
C8_Witness ==
    /\ pc[1] = "exec" /\ passed[1] /\ attempt[1] = 1 /\ tries[task[1]] = 2

\* C10: when a container could not be created or started the process has
\* exited with status 2 and has neither fetched nor dispatched a job.
C10_PrepareFailureAborts ==
    prepFailed =>
       /\ mpc = "exited" /\ exitCode = 2
       /\ ~ranFetch /\ ~dispatched
       /\ \A w \in Workers : pc[w] = "idle" /\ task[w] = 0

\* both containers were created, then one could not be started
C10_Witness ==
    /\ prepFailed /\ mpc = "exited" /\ exitCode = 2
    /\ created = Names /\ \A n \in Names : cstate[n] = "running"


\* ------------------------------------------------ claims on the container pool
\* The states of the pool's state machine, read off a container:
\* 0 Absent, 1 Created (exists, not running), 2 Running, 3 Configured (running
\* with the marker file of disable_offload_once).
EnvRank(cs, mk, n) ==
    CASE cs[n] = "absent" -> 0
      [] cs[n] = "stopped" -> 1
      [] cs[n] = "running" /\ ~mk[n] -> 2
      [] OTHER -> 3

\* the steps of a call of prepare_pool_once and of what follows it in main()
InRunStep == mpc \notin {"boot", "final", "killed"}

\* C11 as stated: within a run no container moves backward, and when
\* prepare_pool_once has returned every container is Configured.
C11_AllConfiguredOnReturn ==
    /\ [][InRunStep => \A n \in Names :
            EnvRank(cstate', marker', n) >= EnvRank(cstate, marker, n)]_vars
    /\ [](mpc = "prepared" => \A n \in Names : EnvRank(cstate, marker, n) = 3)

\* C11 amended: within a run no container moves backward, and when
\* prepare_pool_once has returned every container is Running; it is
\* Configured when its marker file exists, which a container whose ethtool
\* step failed, or that was left unconfigured by an earlier call, lacks.
C11_AllRunningOnReturn ==
    /\ [][InRunStep => \A n \in Names :
            EnvRank(cstate', marker', n) >= EnvRank(cstate, marker, n)]_vars
    /\ [](mpc = "prepared" => \A n \in Names : EnvRank(cstate, marker, n) >= 2)
    /\ [](\A n \in Names : marker[n] => ethtoolRuns[n] >= 1)

\* prepare_pool_once returned after creating both containers; the ethtool
\* step succeeded in the first and failed in the second
C11_Witness ==
    /\ round = 1 /\ mpc = "prepared"
    /\ createOks[1] = 1 /\ EnvRank(cstate, marker, 1) = 3
    /\ createOks[2] = 1 /\ ethtoolRuns[2] = 1 /\ EnvRank(cstate, marker, 2) = 2


\* ------------------------------------------------- claims on the worker loop
\* C12: no two live worker threads have the same container name; when the
\* workers of a batch have been submitted every name of the pool has been
\* handed out; and the task a worker holds is bound, for all its attempts,
\* to the container of that worker.
C12_OneWorkerPerContainer ==
    /\ \A w1, w2 \in Workers : w1 # w2 /\ wname[w1] # 0 => wname[w1] # wname[w2]
    /\ \A w \in Workers : pc[w] # "idle" => wname[w] \in Names
    /\ (\A w \in Workers : pc[w] = "get") => {wname[w] : w \in Workers} = Names
    /\ \A w \in Workers : task[w] # 0 => tcont[w] = wname[w] /\ tcont[w] \in Names

\* worker 2 retries its job in container 2 while worker 1 lives in container 1
C12_Witness ==
    /\ pc[2] = "exec" /\ attempt[2] = 1 /\ tcont[2] = 2 /\ wname[2] = 2
    /\ pc[1] = "get" /\ wname[1] = 1


\* The threads are scheduled by the operating system, the clock advances and
\* the main thread returns from q.join() when it can.
WorkerStep(w) ==
    \/ WkGet(w) \/ WkAttempt(w) \/ ThrLock(w) \/ ThrRead(w) \/ ThrDecide(w)
    \/ ThrWake(w) \/ WkBackoff(w) \/ WkTaskDone(w)
    \/ \E outcome \in ExecOutcomes : WkExec(w, outcome)
    \/ \E dberr \in BOOLEAN : WkMarkDoneExecute(w, dberr)
    \/ \E dberr \in BOOLEAN : WkMarkDoneCommit(w, dberr)
    \/ \E dberr \in BOOLEAN : WkAfterLoop(w, dberr)
    \/ \E dberr \in BOOLEAN : WkMarkFailedCommit(w, dberr)

\* SpecBatch: the while loop of main() in a process that is not interrupted,
\* from the return of prepare_pool_once (all containers created, running and
\* configured) to the final docker rm.
InitBatchCore ==
    /\ rows = [id \in Ids |-> FreshRow("http://u", NULL)]
    /\ inflight = [c \in Callers |-> NoCall]
    /\ last = [c \in Callers |-> NoResult]
    /\ fetched = <<>>
    /\ fetchCall = NoFetch
    /\ fetchSeq = 0
    /\ InitThrottleVars
    /\ InitWorkerVars
    /\ cstate = [n \in Names |-> "running"]
    /\ marker = [n \in Names |-> TRUE]
    /\ created = {}
    /\ pidx = 0
    /\ createOks = [n \in Names |-> 1]
    /\ ethtoolRuns = [n \in Names |-> 1]
    /\ mpc = "prepared"
    /\ exitCode = -1
    /\ run = 1
    /\ round = 1
    /\ q = <<>>
    /\ unfinished = 0
    /\ stats = [ok |-> 0, fail |-> 0, errors |-> <<>>]
    /\ tries = [id \in Ids |-> 0]
    /\ failMarks = [id \in Ids |-> 0]
    /\ writeErr = {}
    /\ prepFailed = FALSE
    /\ ranFetch = FALSE
    /\ dispatched = FALSE
    /\ inFlightAtKill = {}

InitBatch == InitBatchCore /\ InitSideVars

NextBatch ==
    \/ \E err \in BOOLEAN, got \in 0..(BATCH_SIZE - 1) : Fetch(BATCH_SIZE, err, got)
    \/ \E w \in Workers : WkGet(w)
    \/ \E w \in Workers : WkAttempt(w)
    \/ \E w \in Workers : ThrLock(w)
    \/ \E w \in Workers : ThrRead(w)
    \/ \E w \in Workers : ThrDecide(w)
    \/ \E w \in Workers : ThrWake(w)
    \/ Tick
    \/ \E w \in Workers, outcome \in ExecOutcomes : WkExec(w, outcome)
    \/ \E w \in Workers : WkBackoff(w)
    \/ \E w \in Workers, dberr \in BOOLEAN : WkMarkDoneExecute(w, dberr)
    \/ \E w \in Workers, dberr \in BOOLEAN : WkMarkDoneCommit(w, dberr)
    \/ \E w \in Workers, dberr \in BOOLEAN : WkAfterLoop(w, dberr)
    \/ \E w \in Workers, dberr \in BOOLEAN : WkMarkFailedCommit(w, dberr)
    \/ \E w \in Workers : WkTaskDone(w)
    \/ Join
    \/ \E rmOk \in BOOLEAN : Final(rmOk)

SpecBatch == InitBatch /\ [][NextBatch]_vars

FairBatch ==
    /\ SpecBatch
    /\ WF_vars(Tick)
    /\ WF_vars(Join)
    /\ \A w \in Workers : WF_vars(WorkerStep(w))

\* SpecFull: the same loop with a LIMIT as large as the backlog, as in the
\* source, so that one batch holds several jobs and the workers run side by
\* side.
NextFull ==
    \/ \E err \in BOOLEAN, got \in 0..(FullBatch - 1) : Fetch(FullBatch, err, got)
    \/ \E w \in Workers : WkGet(w)
    \/ \E w \in Workers : WkAttempt(w)
    \/ \E w \in Workers : ThrLock(w)
    \/ \E w \in Workers : ThrRead(w)
    \/ \E w \in Workers : ThrDecide(w)
    \/ \E w \in Workers : ThrWake(w)
    \/ Tick
    \/ \E w \in Workers, outcome \in ExecOutcomes : WkExec(w, outcome)
    \/ \E w \in Workers : WkBackoff(w)
    \/ \E w \in Workers, dberr \in BOOLEAN : WkMarkDoneExecute(w, dberr)
    \/ \E w \in Workers, dberr \in BOOLEAN : WkMarkDoneCommit(w, dberr)
    \/ \E w \in Workers, dberr \in BOOLEAN : WkAfterLoop(w, dberr)
    \/ \E w \in Workers, dberr \in BOOLEAN : WkMarkFailedCommit(w, dberr)
    \/ \E w \in Workers : WkTaskDone(w)
    \/ Join
    \/ \E rmOk \in BOOLEAN : Final(rmOk)

SpecFull == InitBatch /\ [][NextFull]_vars

\* worker w gives up its job: the step out of "after_loop" with ok false
GiveUp(w) == pc[w] = "after_loop" /\ ~okv[w] /\ pc'[w] # "after_loop"

WorkerPcs == {"idle", "get", "attempt", "thr_lock", "thr_read", "thr_decide",
              "thr_sleep", "exec", "backoff", "mark_done", "md_commit",
              "after_loop", "mf_commit", "task_done"}

BatchEnded == mpc = "prepared" /\ ranFetch

BatchIds == {fetched[i] : i \in 1..Len(fetched)}

\* the job of row id succeeded on one of its tries / failed all RETRY + 1
JobSucceeded(id) == tries[id] >= 1 /\ failMarks[id] = 0
JobExhausted(id) == tries[id] = RETRY + 1 /\ failMarks[id] = 1

IsDone(r) == r = DoneRow(FreshRow(r.url, NULL), JobTag)
IsFailed(r) == r = [FreshRow(r.url, NULL) EXCEPT !.pcap_path = ErrorSentinel]
IsUntouched(r) == r = FreshRow(r.url, NULL)

\* C14 as stated: at the end of a batch every row whose job succeeded is
\* marked done with its paths, every row whose job failed all its tries
\* carries "error", and stats counts the former as ok and the latter as fail.
C14_EndStateOfBatch ==
    BatchEnded =>
       /\ \A id \in BatchIds :
             /\ JobSucceeded(id) \/ JobExhausted(id)
             /\ JobSucceeded(id) => IsDone(rows[id])
             /\ JobExhausted(id) => IsFailed(rows[id])
       /\ stats.ok = Cardinality({id \in BatchIds : JobSucceeded(id)})
       /\ stats.fail = Cardinality({id \in BatchIds : JobExhausted(id)})

\* C14 amended: the same, except that a row whose markDone or markFailed
\* raised a database error is left untouched (pending) although its job is
\* counted; every other row of the batch is done or "error" as stated.
C14_EndStateUnlessWriteError ==
    BatchEnded =>
       /\ \A id \in BatchIds :
             /\ JobSucceeded(id) \/ JobExhausted(id)
             /\ JobSucceeded(id) /\ id \notin writeErr => IsDone(rows[id])
             /\ JobExhausted(id) /\ id \notin writeErr => IsFailed(rows[id])
             /\ id \in writeErr => IsUntouched(rows[id])
       /\ stats.ok = Cardinality({id \in BatchIds : JobSucceeded(id)})
       /\ stats.fail = Cardinality({id \in BatchIds : JobExhausted(id)})

\* the scenario: row 1 succeeded at once, row 2 on its retry, row 3 failed twice
C14_Witness ==
    /\ BatchEnded /\ fetched = <<1, 2, 3>> /\ writeErr = {}
    /\ tries = <<1, 2, 2>> /\ failMarks = <<0, 0, 1>>
    /\ IsDone(rows[1]) /\ IsDone(rows[2]) /\ IsFailed(rows[3])
    /\ stats.ok = 2 /\ stats.fail = 1


\* ------------------------------------------ SpecManifest: manifest validation
\* One docker exec that ends with exit code 0.  action.py (start_task) sizes
\* the captured files, deletes them all when the check fails, and writes the
\* manifest; exec_once then reads the manifest, requires its five paths and
\* moves the files one after the other.
Kinds == <<"pcap", "ssl", "content", "html", "screenshot">>
KindSet == {Kinds[i] : i \in 1..Len(Kinds)}

\* A file is absent, empty, below wiwi_*_lowest_size, or above it; "nopath"
\* is a kind for which the capture returned an empty path.  start_task calls
\* os.path.getsize on the pcap and the key log, so both exist when it ends
\* with exit code 0.
CaptureStates(k) ==
    IF k \in {"pcap", "ssl"} THEN {"zero", "small", "big"}
    ELSE {"nopath", "missing", "zero", "big"}

Exists(f) == f \in {"zero", "small", "big"}

\* pcap_file_size > wiwi_pcap_lowest_size and ssl_key_file_size >
\* wiwi_ssl_key_lowest_size and os.path.exists(content_path) and
\* os.path.exists(html_path)
action_validate(fs) ==
    /\ fs["pcap"] = "big" /\ fs["ssl"] = "big"
    /\ Exists(fs["content"]) /\ Exists(fs["html"])

\* the else branch removes every file that exists
files_after_validate(fs) ==
    IF action_validate(fs) THEN fs
    ELSE [k \in KindSet |-> IF Exists(fs[k]) THEN "missing" ELSE fs[k]]

\* if not all([pcap_path, ssl_key_file_path, content_path, html_path,
\* screenshot_path]): return False
paths_present(fs) == \A k \in KindSet : fs[k] # "nopath"

\* shutil.move in the order of Kinds; a missing source raises FileNotFoundError
RECURSIVE moved_count(_, _)
moved_count(fs, i) ==
    IF i > Len(Kinds) THEN 0
    ELSE IF Exists(fs[Kinds[i]]) THEN 1 + moved_count(fs, i + 1) ELSE 0

exec_once_post(fs) ==
    IF ~paths_present(fs) THEN "bad_manifest"
    ELSE IF moved_count(fs, 1) < Len(Kinds) THEN "move_error"
    ELSE "moved"

InitManifest ==
    /\ rows = [id \in Ids |-> FreshRow("http://u", NULL)]
    /\ inflight = [c \in Callers |-> NoCall]
    /\ last = [c \in Callers |-> NoResult]
    /\ fetched = <<>>
    /\ fetchCall = NoFetch
    /\ fetchSeq = 0
    /\ InitThrottleVars
    /\ pc = [w \in Workers |-> "idle"]
    /\ task = [w \in Workers |-> 0]
    /\ attempt = [w \in Workers |-> 0]
    /\ okv = [w \in Workers |-> FALSE]
    /\ txn = [w \in Workers |-> NoTxn]
    /\ wname = [w \in Workers |-> 0]
    /\ tcont = [w \in Workers |-> 0]
    /\ passed = [w \in Workers |-> FALSE]
    /\ moveErr = [w \in Workers |-> FALSE]
    /\ relocated = {}
    /\ InitPoolVars
    /\ InitMainVars
    /\ mcapt \in {f \in [KindSet -> {"nopath", "missing", "zero", "small", "big"}] :
                    \A k \in KindSet : f[k] \in CaptureStates(k)}
    /\ mfiles = mcapt
    /\ mstage = "captured"
    /\ mverdict = "none"
    /\ InitSideVars

\* start_task from the size check to the json.dump of the manifest
ActionPyWritesManifest ==
    /\ mstage = "captured"
    /\ mfiles' = files_after_validate(mcapt)
    /\ mstage' = "written"
    /\ UNCHANGED <<dbVars, pc, thrVars, wkLocal, bindVars, passed, poolVars, mainVars,
                   writeErr, moveErr, relocated, mcapt, mverdict, sideVars>>

\* exec_once from json.load of the manifest to its return
ExecOncePost ==
    /\ mstage = "written"
    /\ mverdict' = exec_once_post(mfiles)
    /\ mstage' = "judged"
    /\ UNCHANGED <<dbVars, pc, thrVars, wkLocal, bindVars, passed, poolVars, mainVars,
                   writeErr, moveErr, relocated, mcapt, mfiles, sideVars>>

NextManifest == ActionPyWritesManifest \/ ExecOncePost

SpecManifest == InitManifest /\ [][NextManifest]_vars

\* C15: after an exit code 0 the job is accepted (its files moved, markDone
\* called) only if every required path is present and every file exists and
\* is above the size threshold; a missing path or a missing, empty or
\* undersized file makes the attempt fail.
C15_AcceptedOnlyIfAllFilesValid ==
    mstage = "judged" =>
       (mverdict = "moved" <=> \A k \in KindSet : mcapt[k] = "big")

\* an empty html file beside four good files: the attempt is accepted
C15_ZeroByteAccepted ==
    /\ mstage = "judged" /\ mverdict = "moved"
    /\ mcapt["html"] = "zero"
    /\ \A k \in KindSet \ {"html"} : mcapt[k] = "big"

\* ------------------------------------------------ relocation and completion
\* the job of worker w is over (q.task_done() is next) and was given up
GaveUpAt(w) == pc[w] = "task_done" /\ ~okv[w]

\* C16: a job whose move into durable storage failed with an I/O error is
\* counted as failed and its row is left unclaimed: the completion field is
\* still empty (not "error"), so that a later fetch returns the row again.
C16_MoveErrorLeavesRowUnclaimed ==
    \A w \in Workers :
       GaveUpAt(w) /\ moveErr[w] /\ task[w] \notin writeErr
          => /\ IsUntouched(rows[task[w]])
             /\ stats.fail >= 1

\* shutil.move raised on both tries of row 1; the row carries "error" and a
\* fetch no longer selects it
C16_MoveErrorRowClaimed ==
    /\ GaveUpAt(1) /\ moveErr[1] /\ task[1] = 1 /\ tries[1] = RETRY + 1
    /\ IsFailed(rows[1]) /\ stats.fail = 1
    /\ SelectJobs(rows, BATCH_SIZE) # <<1>>

\* the step writes row id as done
MarksDone(id) == ~IsDone(rows[id]) /\ IsDone(rows'[id])

\* C17: a row is marked done only after every artifact of its job was moved
\* into durable storage, and the paths written are the destinations the
\* moves returned: the write is the commit of the markDone of a worker whose
\* job's files were all relocated before, and a worker is between exec_once's
\* moves and its return only with its files relocated.
C17_DoneOnlyAfterRelocation ==
    /\ [][\A id \in Ids : MarksDone(id) =>
             /\ id \in relocated
             /\ \E w \in Workers : pc[w] = "md_commit" /\ task[w] = id
             /\ rows'[id].pcap_path = new_pcap(JobTag)
             /\ rows'[id].ssl_key_path = new_ssl(JobTag)
             /\ rows'[id].content_path = new_content(JobTag)
             /\ rows'[id].html_path = new_html(JobTag)]_vars
    /\ [](\A w \in Workers : pc[w] \in {"mark_done", "md_commit"}
                                => task[w] \in relocated)
    /\ [](\A id \in BatchIds : IsDone(rows[id]) /\ tries[id] > 0 => id \in relocated)

\* row 2 was moved and marked done on its second try, after a move error on
\* the first
C17_Witness ==
    /\ IsDone(rows[2]) /\ 2 \in relocated /\ tries[2] = 2
    /\ rows[2].pcap_path = new_pcap(JobTag)
    /\ \E w \in Workers : pc[w] = "after_loop" /\ task[w] = 2 /\ okv[w]

\* ------------------------------------------ SpecShared: two runs, one backlog
\* Another run of the orchestrator works the same table: its
\* upload_single_record_to_db (paths of its own files, tag "b") or its
\* mark_failed_record_to_db commits for a row that is still pending.
OtherRunCompletes(id, how) ==
    /\ PcapEmpty(rows[id])
    /\ rows' = IF how = "done"
               THEN upload_rows(rows, Domain0, id, "b", FALSE)
               ELSE failed_rows(rows, Domain0, id, FALSE)
    /\ UNCHANGED <<inflight, last, fetched, fetchCall, fetchSeq, nonDbVars>>

NextShared ==
    \/ NextBatch
    \/ \E id \in Ids, how \in {"done", "failed"} : OtherRunCompletes(id, how)

SpecShared == InitBatch /\ [][NextShared]_vars

\* worker w's markDone returns with no row affected although nothing raised:
\* the row was completed by somebody else in the meantime
ZeroRowsAffected(w) ==
    /\ pc[w] = "md_commit" /\ pc'[w] # "md_commit"
    /\ ~PcapEmpty(rows[task[w]])
    /\ task[w] \notin writeErr'

\* C18: a markDone whose conditional update affects zero rows because the row
\* was already completed is not an error: the job is counted as ok, it is not
\* tried again, and markFailed is not called for it.
C18_ZeroRowsIsOk ==
    /\ [][\A w \in Workers : ZeroRowsAffected(w) =>
             /\ okv'[w] /\ pc'[w] = "after_loop"
             /\ stats' = [stats EXCEPT !.ok = @ + 1]
             /\ rows' = rows]_vars
    /\ [][\A w \in Workers : okv[w] /\ task[w] # 0 =>
             /\ tries'[task[w]] = tries[task[w]]
             /\ failMarks'[task[w]] = failMarks[task[w]]
             /\ pc'[w] \in {"after_loop", "task_done", "get"}
             /\ stats'.fail = stats.fail]_vars

\* the other run completed row 1 while this run's job for it was running:
\* the job ends after one try, counted ok, with the other run's paths in the row
C18_Witness ==
    /\ pc[1] = "task_done" /\ task[1] = 1 /\ okv[1]
    /\ rows[1] = DoneRow(FreshRow("http://u", NULL), "b")
    /\ 1 \in relocated /\ writeErr = {}
    /\ tries[1] = 1 /\ failMarks[1] = 0 /\ stats.ok = 1 /\ stats.fail = 0

\* ------------------------------------------------- the end of the campaign
\* the last fetch came back empty: no pending row, or the query raised
EmptyRound == ranFetch /\ fetched = <<>>

\* C19: when a fetch hits a connectivity error or finds no pending row, the
\* round counts as empty and the controller sleeps and polls again: after an
\* empty round it is back at the head of its loop, neither crashed nor past
\* the loop.
C19_EmptyRoundPollsAgain ==
    EmptyRound => mpc = "prepared" /\ exitCode = -1

\* the query raised while row 1 was pending: the loop was left, the
\* containers were removed and the program ended with the row still pending
C19_FetchErrorEndsRun ==
    /\ EmptyRound /\ fetchCall.err
    /\ mpc = "done" /\ exitCode = 0
    /\ SelectJobs(rows, BATCH_SIZE) = <<1>>
    /\ \A n \in Names : cstate[n] = "absent"

\* the step removes container n (docker rm -f)
Removed(n) == cstate[n] # "absent" /\ cstate'[n] = "absent"

\* a job of this process is running, or about to run, in container n
JobInFlight(n) == \E w \in Workers : wname[w] = n /\ pc[w] # "idle"

\* the loop has ended on an empty batch and every worker has finished
AtVeryEnd ==
    /\ mpc = "final" /\ EmptyRound
    /\ q = <<>> /\ unfinished = 0
    /\ \A w \in Workers : pc[w] = "idle" /\ task[w] = 0

Insts == {1, 2}
Hosts == {1, 2}

InitTwo ==
    /\ InitBatchCore
    /\ scratchDirty = FALSE
    /\ ipc = [i \in Insts |-> "off"]
    /\ ijob = [i \in Insts |-> 0]
    /\ ihost \in {h \in [Insts -> Hosts] : h[1] = 1}
    /\ hostPool = [h \in Hosts |-> "absent"]
    /\ hostFiles = [h \in Hosts |-> {}]
    /\ wins = [id \in Ids |-> {}]
    /\ InitNoCalls
    /\ InitNoCsv
    /\ InitNoJobs
    /\ InitNoStale

TwoUnchanged == UNCHANGED <<inflight, last, fetched, fetchCall, fetchSeq, pc, thrVars,
                            wkLocal, bindVars, passed, poolVars, mainVars, writeErr,
                            moveErr, relocated, mfVars, scratchDirty, ihost,
                            callVars, csvVars, jobVars, staleVars>>

\* __main__: docker rm -f of every container of the prefix, then
\* clear_host_code_subdirs(), then main()
TwoBoot(i) ==
    /\ ipc[i] = "off"
    /\ hostPool' = [hostPool EXCEPT ![ihost[i]] = "absent"]
    /\ hostFiles' = [hostFiles EXCEPT ![ihost[i]] = {}]
    /\ ipc' = [ipc EXCEPT ![i] = "prepare"]
    /\ UNCHANGED <<rows, ijob, wins>>
    /\ TwoUnchanged

\* prepare_pool_once: a container that exists and runs is taken as it is, a
\* missing one is created
TwoPrepare(i) ==
    /\ ipc[i] = "prepare"
    /\ hostPool' = [hostPool EXCEPT ![ihost[i]] = "running"]
    /\ ipc' = [ipc EXCEPT ![i] = "fetch"]
    /\ UNCHANGED <<rows, ijob, hostFiles, wins>>
    /\ TwoUnchanged

\* main: fetch_jobs_from_db; an empty batch ends the loop
TwoFetch(i) ==
    /\ ipc[i] = "fetch"
    /\ LET jobs == SelectJobs(rows, BATCH_SIZE) IN
       IF jobs = <<>>
       THEN /\ ipc' = [ipc EXCEPT ![i] = "final"]
            /\ UNCHANGED ijob
       ELSE /\ ipc' = [ipc EXCEPT ![i] = "exec"]
            /\ ijob' = [ijob EXCEPT ![i] = Head(jobs)]
    /\ UNCHANGED <<rows, hostPool, hostFiles, wins>>
    /\ TwoUnchanged

\* the row's completion write of instance i: the guarded UPDATE of
\* upload_single_record_to_db (done) or mark_failed_record_to_db (failed)
TwoWrite(i, done) ==
    /\ rows' = IF done THEN upload_rows(rows, Domain0, ijob[i], TagOf(i), FALSE)
               ELSE failed_rows(rows, Domain0, ijob[i], FALSE)
    /\ wins' = IF PcapEmpty(rows[ijob[i]])
               THEN [wins EXCEPT ![ijob[i]] = @ \cup {i}] ELSE wins

\* exec_once, docker exec: action.py leaves its files and its manifest under
\* HOST_CODE_PATH; without the container the call fails, as it may anyway,
\* and the job that failed all its attempts is marked failed
TwoExec(i, captured) ==
    /\ ipc[i] = "exec"
    /\ IF captured /\ hostPool[ihost[i]] = "running"
       THEN /\ hostFiles' = [hostFiles EXCEPT ![ihost[i]] = @ \cup {i}]
            /\ ipc' = [ipc EXCEPT ![i] = "reconcile"]
            /\ UNCHANGED <<rows, wins>>
       ELSE /\ TwoWrite(i, FALSE)
            /\ ipc' = [ipc EXCEPT ![i] = "clear"]
            /\ UNCHANGED hostFiles
    /\ UNCHANGED <<ijob, hostPool>>
    /\ TwoUnchanged

\* exec_once after rc = 0: read the manifest, move the files, markDone; a
\* file that is gone raises FileNotFoundError and the job fails
TwoReconcile(i) ==
    /\ ipc[i] = "reconcile"
    /\ TwoWrite(i, i \in hostFiles[ihost[i]])
    /\ hostFiles' = [hostFiles EXCEPT ![ihost[i]] = @ \ {i}]
    /\ ipc' = [ipc EXCEPT ![i] = "clear"]
    /\ UNCHANGED <<ijob, hostPool>>
    /\ TwoUnchanged

\* main, after q.join(): clear_host_code_subdirs(), next batch
TwoClear(i) ==
    /\ ipc[i] = "clear"
    /\ hostFiles' = [hostFiles EXCEPT ![ihost[i]] = {}]
    /\ ijob' = [ijob EXCEPT ![i] = 0]
    /\ ipc' = [ipc EXCEPT ![i] = "fetch"]
    /\ UNCHANGED <<rows, hostPool, wins>>
    /\ TwoUnchanged

\* main, after the loop: docker rm -f of every container of the prefix
TwoFinal(i) ==
    /\ ipc[i] = "final"
    /\ hostPool' = [hostPool EXCEPT ![ihost[i]] = "absent"]
    /\ ipc' = [ipc EXCEPT ![i] = "done"]
    /\ UNCHANGED <<rows, ijob, hostFiles, wins>>
    /\ TwoUnchanged

NextTwo ==
    \/ \E i \in Insts : TwoBoot(i)
    \/ \E i \in Insts : TwoPrepare(i)
    \/ \E i \in Insts : TwoFetch(i)
    \/ \E i \in Insts, captured \in BOOLEAN : TwoExec(i, captured)
    \/ \E i \in Insts : TwoReconcile(i)
    \/ \E i \in Insts : TwoClear(i)
    \/ \E i \in Insts : TwoFinal(i)

SpecTwo == InitTwo /\ [][NextTwo]_vars

\* instance j has a job in flight: its docker exec runs or its files await
\* the move
TwoInFlight(j) == ipc[j] \in {"exec", "reconcile"}

\* the step is one of instance i
TwoActs(i) == ipc'[i] # ipc[i]

\* the step removes a container / removes files of instance j / starts a
\* docker exec in a container
TwoRemoves == \E h \in Hosts : hostPool[h] = "running" /\ hostPool'[h] = "absent"
TwoClears(j) == j \in hostFiles[ihost[j]] /\ j \notin hostFiles'[ihost[j]]
TwoEnters(i) == ipc[i] # "exec" /\ ipc'[i] = "exec"

\* C21: two instances may work one backlog at the same time: for every row
\* at most one instance's completion write takes effect, and no instance
\* removes the other's container, clears the other's files or starts a job
\* in the other's container while the other has a job in flight.
C21_TwoInstancesSafe ==
    /\ [](\A id \in Ids : Cardinality(wins[id]) <= 1)
    /\ [][\A i \in Insts : \A j \in Insts \ {i} :
             TwoActs(i) /\ TwoInFlight(j) =>
                /\ ~(TwoRemoves /\ ihost[i] = ihost[j])
                /\ ~TwoClears(j)
                /\ ~(TwoEnters(i) /\ ihost[i] = ihost[j])]_vars

\* instance 2 started on the host of instance 1 and removed the container in
\* which the docker exec of instance 1 is running
C21_OtherContainerRemoved ==
    /\ ihost[2] = ihost[1]
    /\ ipc[1] = "exec" /\ ijob[1] = 1
    /\ ipc[2] = "prepare"
    /\ hostPool[ihost[1]] = "absent"

\* ------------------------------------------- SpecCalls: blocking calls out
\* Every call the program makes to the container runtime or to the database,
\* with the timeout the source passes.  The collaborator answers at some
\* moment or never; a call with a timeout raises when the timeout is over.
\* Time is counted in ticks; DOCKER_EXEC_TIMEOUT (6000 s) is ExecTimeout ticks.
ExecTimeout == 2
NoTimeout == -1
MaxAge == ExecTimeout + 1

MainThread == 0
Threads == {MainThread} \cup Workers

\* the calls of the main thread and of a worker thread
MainCalls == {"docker_version", "docker_inspect", "docker_run", "docker_start",
              "docker_exec_offload", "db_select", "docker_rm"}
WorkerCalls == {"docker_exec_action", "db_update_done", "db_update_failed"}
CallsOf(t) == IF t = MainThread THEN MainCalls ELSE WorkerCalls

\* run(cmd, timeout=None) is called with a timeout by exec_once alone; the
\* engine is created without connect or read timeout
timeout_of(kind) == IF kind = "docker_exec_action" THEN ExecTimeout ELSE NoTimeout

InitCalls ==
    /\ InitBatchCore
    /\ scratchDirty = FALSE
    /\ InitNoTwo
    /\ InitNoCsv
    /\ InitNoJobs
    /\ InitNoStale
    /\ cKind = [t \in Threads |-> "none"]
    /\ cAge = [t \in Threads |-> 0]

CallsUnchanged == UNCHANGED <<dbVars, pc, thrVars, wkLocal, bindVars, passed, poolVars,
                              mainVars, writeErr, moveErr, relocated, mfVars,
                              scratchDirty, twoVars, csvVars, jobVars, staleVars>>

\* thread t makes a call and blocks in it
CallIssue(t, kind) ==
    /\ cKind[t] = "none"
    /\ kind \in CallsOf(t)
    /\ cKind' = [cKind EXCEPT ![t] = kind]
    /\ cAge' = [cAge EXCEPT ![t] = 0]
    /\ CallsUnchanged

\* the collaborator answers
CallReturn(t) ==
    /\ cKind[t] # "none"
    /\ cKind' = [cKind EXCEPT ![t] = "none"]
    /\ cAge' = [cAge EXCEPT ![t] = 0]
    /\ CallsUnchanged

\* subprocess.run raises TimeoutExpired
CallTimeout(t) ==
    /\ cKind[t] # "none"
    /\ timeout_of(cKind[t]) # NoTimeout
    /\ cAge[t] >= timeout_of(cKind[t])
    /\ cKind' = [cKind EXCEPT ![t] = "none"]
    /\ cAge' = [cAge EXCEPT ![t] = 0]
    /\ CallsUnchanged

\* time passes for every waiting call; a call with a timeout does not wait
\* beyond it
CallTick ==
    /\ \E t \in Threads : cKind[t] # "none" /\ cAge[t] < MaxAge
    /\ \A t \in Threads : cKind[t] # "none" /\ timeout_of(cKind[t]) # NoTimeout
                             => cAge[t] < timeout_of(cKind[t])
    /\ cAge' = [t \in Threads |->
                  IF cKind[t] # "none" /\ cAge[t] < MaxAge THEN cAge[t] + 1 ELSE cAge[t]]
    /\ UNCHANGED cKind
    /\ CallsUnchanged

NextCalls ==
    \/ \E t \in Threads, kind \in MainCalls \cup WorkerCalls : CallIssue(t, kind)
    \/ \E t \in Threads : CallReturn(t)
    \/ \E t \in Threads : CallTimeout(t)
    \/ CallTick

SpecCalls == InitCalls /\ [][NextCalls]_vars

\* C22: every blocking call to the container runtime or the backlog has an
\* explicit timeout, so that no thread waits in a call beyond a bound.
C22_EveryCallHasTimeout ==
    \A t \in Threads : cKind[t] # "none" =>
       /\ timeout_of(cKind[t]) # NoTimeout
       /\ cAge[t] <= timeout_of(cKind[t])

\* the main thread has waited in docker inspect beyond the longest timeout of
\* the program while a worker's docker exec is still within its own
C22_InspectWaitsUnbounded ==
    /\ cKind[MainThread] = "docker_inspect" /\ cAge[MainThread] = MaxAge
    /\ cKind[1] = "docker_exec_action" /\ cAge[1] < ExecTimeout

\* ------------------------------------------------ the loop comes to an end
\* FairLoop: the threads and the main thread keep running
FairLoop ==
    /\ FairBatch
    /\ WF_vars(\E err \in BOOLEAN, got \in 0..(BATCH_SIZE - 1) : Fetch(BATCH_SIZE, err, got))
    /\ WF_vars(\E rmOk \in BOOLEAN : Final(rmOk))

\* the loop was left and the program came to its end
RunEnded == mpc = "done"

Owners(id) == {w \in Workers : task[w] = id}
QueuePlaces(id) == {i \in 1..Len(q) : q[i] = id}
Holders(id) == Cardinality(Owners(id)) + Cardinality(QueuePlaces(id))

\* the job of worker w has its outcome: counted ok, or given up
OutcomeReached(w) ==
    /\ pc[w] = "task_done"
    /\ IF okv[w] THEN failMarks[task[w]] = 0 ELSE failMarks[task[w]] = 1

\* C24: within a batch every enqueued job is dequeued by exactly one worker
\* and held by that worker alone until its outcome; no job runs on two
\* workers, none is lost, and the wait on the queue returns only after every
\* job of the batch has its outcome.
C24_ExclusiveOwnership ==
    /\ [](mpc = "join" =>
            /\ \A id \in BatchIds :
                  /\ Holders(id) <= 1
                  /\ QueuePlaces(id) # {} => tries[id] = 0
                  /\ Holders(id) = 0 => JobSucceeded(id) \/ JobExhausted(id)
            /\ \A w \in Workers : task[w] # 0 => task[w] \in BatchIds
            /\ unfinished = Cardinality({id \in BatchIds : Holders(id) = 1}))
    /\ [][\A w \in Workers : task'[w] # task[w] =>
             IF task[w] = 0
             THEN /\ q # <<>> /\ task'[w] = Head(q) /\ q' = Tail(q)
                  /\ \A v \in Workers \ {w} : task'[v] = task[v]
             ELSE /\ task'[w] = 0 /\ OutcomeReached(w)]_vars
    /\ [][mpc = "join" /\ mpc' = "prepared" =>
             /\ q = <<>>
             /\ \A id \in BatchIds :
                   Owners(id) = {} /\ (JobSucceeded(id) \/ JobExhausted(id))]_vars

\* both workers hold a job of their own, each in its second try, and the
\* third job waits in the queue
C24_Witness ==
    /\ mpc = "join" /\ fetched = <<1, 2, 3>>
    /\ task[1] = 2 /\ task[2] = 1 /\ q = <<3>>
    /\ tries = <<2, 2, 0>> /\ unfinished = 3

\* ----------------------------------------------------------- the statistics
\* worker w has counted the job it holds
Counted(w) ==
    /\ task[w] # 0
    /\ \/ pc[w] = "task_done"
       \/ pc[w] = "after_loop" /\ okv[w]

ErrorIds == {stats.errors[i] : i \in 1..Len(stats.errors)}

\* C26: the statistics are neither lost nor counted twice under concurrent
\* workers: every job adds one to exactly one of ok and fail, once, an entry
\* of errors comes with every fail, and at the end of a batch ok + fail is
\* the number of jobs enqueued.
C26_StatsExact ==
    /\ [](mpc = "join" =>
            /\ stats.ok + stats.fail =
                  Cardinality({id \in BatchIds : Holders(id) = 0})
                     + Cardinality({w \in Workers : Counted(w)})
            /\ Len(stats.errors) = stats.fail
            /\ Cardinality(ErrorIds) = stats.fail
            /\ ErrorIds \subseteq BatchIds
            /\ \A id \in ErrorIds : failMarks[id] = 1)
    /\ [](BatchEnded =>
            /\ stats.ok + stats.fail = Len(fetched)
            /\ Len(stats.errors) = stats.fail
            /\ ErrorIds = {id \in BatchIds : JobExhausted(id)}
            /\ stats.ok = Cardinality(BatchIds \ ErrorIds))
    /\ [][stats' # stats /\ mpc' = "join" /\ mpc = "join" =>
             \/ stats' = [stats EXCEPT !.ok = @ + 1]
             \/ \E id \in BatchIds \ ErrorIds :
                   stats' = [stats EXCEPT !.fail = @ + 1, !.errors = Append(@, id)]]_vars

\* the two workers failed their jobs side by side, row 2 before row 1, and
\* the third job succeeded: two fails, two entries, one ok
C26_Witness ==
    /\ BatchEnded /\ fetched = <<1, 2, 3>>
    /\ stats = [ok |-> 1, fail |-> 2, errors |-> <<2, 1>>]

\* --------------------------------------------------------- no deadlock
\* worker w starts (its worker_loop is submitted) / leaves its loop
WorkerStarts(w) == pc[w] = "idle" /\ pc'[w] # "idle"
WorkerLeaves(w) == pc[w] # "idle" /\ pc'[w] = "idle"

\* C25: provided every environment call returns or times out, a batch always
\* completes: a worker leaves its loop exactly when its non-blocking dequeue
\* finds the queue empty, all jobs are in the queue before a worker starts,
\* and both the join on the queue and the shutdown of the pool return.
C25_BatchCompletes ==
    /\ [][\A w \in Workers : WorkerLeaves(w) => pc[w] = "get" /\ q = <<>>]_vars
    /\ [][\A w \in Workers : pc[w] = "get" /\ pc'[w] # "get" =>
             IF q = <<>> THEN pc'[w] = "idle" /\ task'[w] = 0
             ELSE pc'[w] = "attempt" /\ task'[w] = Head(q)]_vars
    /\ [][\A w \in Workers : WorkerStarts(w) =>
             /\ q' = fetched' /\ q' # <<>> /\ unfinished' = Len(q')
             /\ \A v \in Workers : pc[v] = "idle" /\ pc'[v] = "get"]_vars
    /\ \A w \in Workers : (pc[w] # "idle") ~> (pc[w] = "idle")
    /\ (mpc = "join") ~>
          (BatchEnded /\ q = <<>> /\ unfinished = 0 /\ \A w \in Workers : pc[w] = "idle")

\* worker 2 found the queue empty and left while worker 1 is still inside
\* the docker exec of the batch's only job
C25_Witness ==
    /\ mpc = "join" /\ q = <<>> /\ unfinished = 1
    /\ pc[2] = "idle" /\ task[2] = 0
    /\ pc[1] = "exec" /\ task[1] = 1

\* ------------------------------------------------- scratch directories
\* a step of clear_host_code_subdirs that removed something
Cleared == scratchDirty /\ ~scratchDirty'

\* no worker of this process holds a job or is inside its loop
NoJobRunning == \A w \in Workers : pc[w] = "idle" /\ task[w] = 0

\* the queue has drained and the pool has shut down
BetweenBatches == mpc = "join" /\ q = <<>> /\ unfinished = 0 /\ NoJobRunning

\* C27 as stated: the scratch directories are cleared only between batches,
\* after the queue has drained and every worker of the batch has exited.
C27_ClearedOnlyBetweenBatches == [][Cleared => BetweenBatches]_vars

\* C27: the scratch directories are cleared between batches, after the
\* queue has drained and every worker has exited, and once more when the
\* program starts, before its first batch; in both places no job of the
\* run is executing or being reconciled.
C27_ClearedBetweenBatchesOrAtStart ==
    [][Cleared => (BetweenBatches \/ mpc = "boot") /\ NoJobRunning]_vars

\* a batch of this process ran a docker exec, the row is done and the
\* scratch directories are empty again
C27_Witness ==
    /\ BatchEnded /\ dispatched /\ ~scratchDirty
    /\ run = 1 /\ \E id \in Ids : IsDone(rows[id])

\* a restarted process cleared what the killed one had left behind
C27_ClearedAtStart ==
    /\ run = 2 /\ mpc = "main" /\ ~scratchDirty /\ inFlightAtKill # {}

\* ------------------------------------------- the CSV-driven orchestrator
\* news_receiver_traffic_ingestor.py: the jobs come from a CSV file, there is
\* no backlog table; worker_loop still takes a `retry` argument.

\* largest value of the `retry` argument considered
MaxRetryArg == 2

\* the lists read_jobs can return: the first rows of the file, in file order
CsvJobLists == {SubSeq([i \in 1..NRows |-> i], 1, n) : n \in 0..NRows}

\* how exec_once ends: (True, ""), (False, err), TimeoutExpired, other Exception
CsvResults == {"ok", "fail", "timeout", "error"}

\* where worker_loop goes after an attempt that ended as res, the n-th of the
\* job: the DB orchestrator's loop tries again while attempts remain ...
after_attempt_retrying(res, n, retry) ==
    IF res # "ok" /\ n < retry + 1 THEN "exec" ELSE "count"
\* ... the CSV orchestrator's loop body has no loop around exec_once
after_attempt(res, n, retry) == "count"

InitCsv ==
    /\ InitBatchCore
    /\ scratchDirty = FALSE
    /\ InitNoTwo
    /\ InitNoCalls
    /\ InitNoJobs
    /\ InitNoStale
    /\ cmain = "start"
    /\ cretry \in 0..MaxRetryArg
    /\ cq = <<>>
    /\ cunfinished = 0
    /\ cpc = [w \in Workers |-> "idle"]
    /\ ctask = [w \in Workers |-> 0]
    /\ cres = [w \in Workers |-> "none"]
    /\ ctries = [id \in Ids |-> 0]
    /\ cstats = [ok |-> 0, fail |-> 0, errors |-> <<>>]

CsvUnchanged == UNCHANGED <<dbVars, pc, thrVars, wkLocal, bindVars, passed, poolVars,
                            mainVars, writeErr, moveErr, relocated, mfVars,
                            scratchDirty, twoVars, callVars, cretry, jobVars, staleVars>>

\* main: read_jobs; no job -> return (to the final clean-up); else fill the
\* queue, reset stats and submit one worker_loop per container
CsvStart(jobs) ==
    /\ cmain = "start"
    /\ IF jobs = <<>>
       THEN /\ cmain' = "final"
            /\ UNCHANGED <<cq, cunfinished, cpc, cstats>>
       ELSE /\ cmain' = "join"
            /\ cq' = jobs
            /\ cunfinished' = Len(jobs)
            /\ cpc' = [w \in Workers |-> "get"]
            /\ cstats' = [ok |-> 0, fail |-> 0, errors |-> <<>>]
    /\ UNCHANGED <<ctask, cres, ctries>>
    /\ CsvUnchanged

\* worker_loop: task = q.get_nowait(); queue.Empty -> return
CsvGet(w) ==
    /\ cpc[w] = "get"
    /\ IF cq = <<>>
       THEN /\ cpc' = [cpc EXCEPT ![w] = "idle"]
            /\ UNCHANGED <<cq, ctask>>
       ELSE /\ ctask' = [ctask EXCEPT ![w] = Head(cq)]
            /\ cq' = Tail(cq)
            /\ cpc' = [cpc EXCEPT ![w] = "exec"]
    /\ UNCHANGED <<cmain, cunfinished, cres, ctries, cstats>>
    /\ CsvUnchanged

\* ok, err = exec_once(task), or one of the two except clauses
CsvExec(w, res) ==
    /\ cpc[w] = "exec"
    /\ ctries' = [ctries EXCEPT ![ctask[w]] = @ + 1]
    /\ cres' = [cres EXCEPT ![w] = res]
    /\ cpc' = [cpc EXCEPT ![w] = after_attempt(res, ctries'[ctask[w]], cretry)]
    /\ UNCHANGED <<cmain, cq, cunfinished, ctask, cstats>>
    /\ CsvUnchanged

\* stats["ok"] += 1, or stats["fail"] += 1 and stats["errors"].append(...);
\* finally: q.task_done()
CsvCount(w) ==
    /\ cpc[w] = "count"
    /\ cstats' = IF cres[w] = "ok" THEN stats_ok(cstats)
                 ELSE stats_fail(cstats, ctask[w])
    /\ cunfinished' = task_done(cunfinished)
    /\ ctask' = [ctask EXCEPT ![w] = 0]
    /\ cres' = [cres EXCEPT ![w] = "none"]
    /\ cpc' = [cpc EXCEPT ![w] = "get"]
    /\ UNCHANGED <<cmain, cq, ctries>>
    /\ CsvUnchanged

\* q.join() returned and the pool shut down: the summary
CsvJoin ==
    /\ cmain = "join"
    /\ cunfinished = 0
    /\ \A w \in Workers : cpc[w] = "idle"
    /\ cmain' = "final"
    /\ UNCHANGED <<cq, cunfinished, cpc, ctask, cres, ctries, cstats>>
    /\ CsvUnchanged

\* time.sleep(60) and docker rm -f of the pool
CsvFinal ==
    /\ cmain = "final"
    /\ cmain' = "done"
    /\ UNCHANGED <<cq, cunfinished, cpc, ctask, cres, ctries, cstats>>
    /\ CsvUnchanged

NextCsv ==
    \/ \E jobs \in CsvJobLists : CsvStart(jobs)
    \/ \E w \in Workers : CsvGet(w)
    \/ \E w \in Workers, res \in CsvResults : CsvExec(w, res)
    \/ \E w \in Workers : CsvCount(w)
    \/ CsvJoin
    \/ CsvFinal

SpecCsv == InitCsv /\ [][NextCsv]_vars

CsvQueued == {cq[i] : i \in 1..Len(cq)}
CsvErrorIds == {cstats.errors[i] : i \in 1..Len(cstats.errors)}

\* C28: in the CSV-driven orchestrator each job is attempted exactly once
\* whatever the retry argument: no job is attempted twice, an attempted job
\* never returns to the queue, a failed, timed-out or erroring attempt is
\* counted as a failure by the worker's very next step, and when the batch
\* has ended every job was attempted once and counted once.
C28_SingleAttempt ==
    /\ [](\A id \in Ids : ctries[id] <= 1 /\ (ctries[id] = 1 => id \notin CsvQueued))
    /\ [][\A w \in Workers : cpc[w] = "exec" =>
             \/ cpc'[w] = "exec" /\ ctries'[ctask[w]] = ctries[ctask[w]]
             \/ cpc'[w] = "count" /\ ctries'[ctask[w]] = 1]_vars
    /\ [][\A w \in Workers : cpc[w] = "count" /\ cpc'[w] # "count" =>
             /\ cpc'[w] = "get"
             /\ cunfinished' = cunfinished - 1
             /\ IF cres[w] = "ok"
                THEN cstats' = [cstats EXCEPT !.ok = @ + 1]
                ELSE cstats' = [cstats EXCEPT !.fail = @ + 1,
                                              !.errors = Append(@, ctask[w])]]_vars
    /\ [](cmain \in {"final", "done"} =>
             /\ cq = <<>>
             /\ Cardinality({id \in Ids : ctries[id] = 1}) = cstats.ok + cstats.fail
             /\ Len(cstats.errors) = cstats.fail
             /\ Cardinality(CsvErrorIds) = cstats.fail)

\* with retry = 2 the run of three jobs ended: one succeeded, two failed (one
\* of them by a timeout or an exception), each after a single attempt
C28_Witness ==
    /\ cmain = "done" /\ cretry = 2
    /\ ctries = [id \in Ids |-> 1]
    /\ cstats.ok = 1 /\ cstats.fail = 2

\* --------------------------------------------- batch-mode job construction
\* news_receiver_traffic_ingestor_batch.py, read_jobs_batch: one job per
\* domain, holding the domain's URLs.

\* most data rows of a CSV file considered
MaxCsvRows == 3

\* a text is a sequence of characters; the characters are the digits 0..9
\* in their order: the id column "", "2", "9", "10"
IdTexts == {<<>>, <<2>>, <<9>>, <<1, 0>>}
UrlTexts == {"", "http://u"}
DomainTexts == {"a.com", "b.com"}

CsvRow == [id : IdTexts, url : UrlTexts, domain : DomainTexts]
CsvFiles == UNION {[1..n -> CsvRow] : n \in 0..MaxCsvRows}

\* int(text): defined for a non-empty run of digits, ValueError otherwise
is_int(t) == Len(t) > 0 /\ \A i \in 1..Len(t) : t[i] \in 0..9

RECURSIVE int_of(_)
int_of(t) == IF t = <<>> THEN 0 ELSE 10 * int_of(SubSeq(t, 1, Len(t) - 1)) + t[Len(t)]

\* Python's < on str: the first differing character decides, a proper prefix
\* is smaller
RECURSIVE str_lt(_, _)
str_lt(a, b) ==
    IF b = <<>> THEN FALSE
    ELSE IF a = <<>> THEN TRUE
    ELSE IF Head(a) # Head(b) THEN Head(a) < Head(b)
    ELSE str_lt(Tail(a), Tail(b))

\* key(x) < key(y) for the key of the first sort (int) or of the second (str)
key_lt(mode, x, y) ==
    IF mode = "int" THEN int_of(x.row_id) < int_of(y.row_id)
    ELSE str_lt(x.row_id, y.row_id)

\* list.sort(key=...) is stable: x goes behind every element whose key is
\* not greater than its own
RECURSIVE insert_sorted(_, _, _)
insert_sorted(mode, s, x) ==
    IF s = <<>> THEN <<x>>
    ELSE IF key_lt(mode, x, Head(s)) THEN <<x>> \o s
    ELSE <<Head(s)>> \o insert_sorted(mode, Tail(s), x)

RECURSIVE sort_by(_, _)
sort_by(mode, s) ==
    IF s = <<>> THEN <<>>
    ELSE insert_sorted(mode, sort_by(mode, SubSeq(s, 1, Len(s) - 1)), s[Len(s)])

\* the group's list left as the rows were appended
urls_unsorted(urls) == urls
\* urls.sort(key=int(row_id)); on ValueError urls.sort(key=row_id)
urls_sorted(urls) ==
    IF \A i \in 1..Len(urls) : is_int(urls[i].row_id)
    THEN sort_by("int", urls)
    ELSE sort_by("str", urls)

\* rows without a URL are skipped
HasUrl(r) == r.url # ""
with_url(file) == SelectSeq(file, HasUrl)

\* the keys of domain_groups in insertion order: a domain enters when its
\* first row with a URL is read
RECURSIVE domain_keys(_)
domain_keys(file) ==
    IF file = <<>> THEN <<>>
    ELSE LET before == domain_keys(SubSeq(file, 1, Len(file) - 1))
             r == file[Len(file)]
         IN  IF ~HasUrl(r) \/ \E k \in 1..Len(before) : before[k] = r.domain
             THEN before
             ELSE Append(before, r.domain)

\* domain_groups[dom]: {"row_id": rid, "url": url} of the domain's rows
domain_group(file, dom) ==
    LET InDom(r) == r.domain = dom
        mine == SelectSeq(with_url(file), InDom)
    IN  [k \in 1..Len(mine) |-> [row_id |-> mine[k].id, url |-> mine[k].url]]

read_jobs_batch(file) ==
    LET keys == domain_keys(file)
    IN  [k \in 1..Len(keys) |->
            [domain |-> keys[k], urls |-> urls_sorted(domain_group(file, keys[k]))]]

InitJobs ==
    /\ InitBatchCore
    /\ scratchDirty = FALSE
    /\ InitNoTwo
    /\ InitNoCalls
    /\ InitNoCsv
    /\ InitNoStale
    /\ brows \in CsvFiles
    /\ bjobs = <<>>
    /\ bstage = "file"

JobsUnchanged == UNCHANGED <<dbVars, pc, thrVars, wkLocal, bindVars, passed, poolVars,
                             mainVars, writeErr, moveErr, relocated, mfVars,
                             scratchDirty, twoVars, callVars, csvVars, brows, staleVars>>

\* main: jobs, header_fields = read_jobs_batch(CSV_PATH)
ReadJobsBatch ==
    /\ bstage = "file"
    /\ bjobs' = read_jobs_batch(brows)
    /\ bstage' = "read"
    /\ JobsUnchanged

NextJobs == ReadJobsBatch

SpecJobs == InitJobs /\ [][NextJobs]_vars

\* how often x occurs in the sequence s
Occurrences(s, x) == Cardinality({i \in 1..Len(s) : s[i] = x})

\* the input is partitioned: the jobs' domains are distinct and are exactly
\* the domains of the rows with a URL, and a job holds each row of its domain
\* as often as the file does, and nothing else
JobsPartitionInput ==
    /\ \A j, k \in 1..Len(bjobs) : bjobs[j].domain = bjobs[k].domain => j = k
    /\ {bjobs[k].domain : k \in 1..Len(bjobs)}
         = {brows[i].domain : i \in {n \in 1..Len(brows) : HasUrl(brows[n])}}
    /\ \A k \in 1..Len(bjobs) : \A r \in CsvRow :
          Occurrences(bjobs[k].urls, [row_id |-> r.id, url |-> r.url])
            = Occurrences(brows, [r EXCEPT !.domain = bjobs[k].domain])
              * (IF HasUrl(r) THEN 1 ELSE 0)
    /\ \A k \in 1..Len(bjobs) : \A i \in 1..Len(bjobs[k].urls) :
          bjobs[k].urls[i].url # ""

\* the ids of job k ascend as numbers / as texts
AscendingAsNumbers(urls) ==
    \A i \in 1..Len(urls) - 1 :
        is_int(urls[i].row_id) /\ is_int(urls[i + 1].row_id)
            => int_of(urls[i].row_id) <= int_of(urls[i + 1].row_id)
AscendingAsTexts(urls) ==
    \A i \in 1..Len(urls) - 1 : ~str_lt(urls[i + 1].row_id, urls[i].row_id)
AllIdsNumbers(urls) == \A i \in 1..Len(urls) : is_int(urls[i].row_id)

C29_TextOrder ==
    /\ bstage = "read"
    /\ Len(bjobs) = 1
    /\ [i \in 1..Len(bjobs[1].urls) |-> bjobs[1].urls[i].row_id]
         = <<<<>>, <<1, 0>>, <<9>>>>

\* --------------------------------------------- whose manifest exec_once reads
\* One container and its worker: the docker execs the worker makes on it one
\* after the other (attempts of one job, then of the next), the action.py
\* process each of them starts inside the container, and the file
\* meta/<container>_last.json they all write.

\* docker execs of the worker considered
MaxCalls == 3

Calls == 1..MaxCalls
NoRead == [call |-> 0, by |-> 0]

InitStale ==
    /\ InitBatchCore
    /\ scratchDirty = FALSE
    /\ InitNoTwo
    /\ InitNoCalls
    /\ InitNoCsv
    /\ InitNoJobs
    /\ ecall = 0
    /\ estage = "idle"
    /\ eproc = [c \in Calls |-> "none"]
    /\ lastJson = 0
    /\ eread = NoRead

StaleUnchanged == UNCHANGED <<dbVars, pc, thrVars, wkLocal, bindVars, passed, poolVars,
                              mainVars, writeErr, moveErr, relocated, mfVars,
                              scratchDirty, twoVars, callVars, csvVars, jobVars>>

\* exec_once: run(["docker", "exec", container, "python", ... action.py])
ExecIssue ==
    /\ estage = "idle"
    /\ ecall < MaxCalls
    /\ ecall' = ecall + 1
    /\ eproc' = [eproc EXCEPT ![ecall + 1] = "running"]
    /\ estage' = "waiting"
    /\ UNCHANGED <<lastJson, eread>>
    /\ StaleUnchanged

\* start_task: json.dump(result, f) into /app/meta/<container>_last.json
ProcWrite(c) ==
    /\ eproc[c] = "running"
    /\ lastJson' = c
    /\ eproc' = [eproc EXCEPT ![c] = "written"]
    /\ UNCHANGED <<ecall, estage, eread>>
    /\ StaleUnchanged

\* start_task returns after time.sleep(1): the process exits with code 0; the
\* docker exec that waits for it, if any still does, returns 0
ProcExit(c) ==
    /\ eproc[c] = "written"
    /\ eproc' = [eproc EXCEPT ![c] = "gone"]
    /\ estage' = IF c = ecall /\ estage = "waiting" THEN "exit0" ELSE estage
    /\ UNCHANGED <<ecall, lastJson, eread>>
    /\ StaleUnchanged

\* an exception leaves start_task before the manifest is written: the process
\* exits with a non-zero code and exec_once returns False without reading
ProcFail(c) ==
    /\ eproc[c] = "running"
    /\ eproc' = [eproc EXCEPT ![c] = "gone"]
    /\ estage' = IF c = ecall /\ estage = "waiting" THEN "idle" ELSE estage
    /\ UNCHANGED <<ecall, lastJson, eread>>
    /\ StaleUnchanged

\* subprocess.run(..., timeout=DOCKER_EXEC_TIMEOUT) kills the docker client
\* it started and raises TimeoutExpired; whether the process inside the
\* container ends with the client is not decided by the program
ExecTimedOut(lingers) ==
    /\ estage = "waiting"
    /\ estage' = "idle"
    /\ eproc' = IF lingers THEN eproc ELSE [eproc EXCEPT ![ecall] = "gone"]
    /\ UNCHANGED <<ecall, lastJson, eread>>
    /\ StaleUnchanged

\* exec_once, returncode == 0: open(HOST_CODE_PATH/meta/<container>_last.json)
ExecRead ==
    /\ estage = "exit0"
    /\ eread' = [call |-> ecall, by |-> lastJson]
    /\ estage' = "idle"
    /\ UNCHANGED <<ecall, eproc, lastJson>>
    /\ StaleUnchanged

NextStale ==
    \/ ExecIssue
    \/ \E c \in Calls : ProcWrite(c)
    \/ \E c \in Calls : ProcExit(c)
    \/ \E c \in Calls : ProcFail(c)
    \/ \E lingers \in BOOLEAN : ExecTimedOut(lingers)
    \/ ExecRead

SpecStale == InitStale /\ [][NextStale]_vars

\* C30: the manifest a worker reads after an environment call exited with
\* code 0 was written by that very call, never by an earlier job or an
\* earlier (failed or timed-out) attempt on the same environment.
C30_ManifestIsFresh ==
    /\ eread.call # 0 => eread.by = eread.call
    /\ estage = "exit0" => lastJson = ecall

\* the second call exited with 0 and exec_once read the manifest that the
\* first call, timed out but still running in the container, had written
C30_StaleManifestRead == eread = [call |-> 2, by |-> 1]

====
